---- MODULE Spec2Model ----
(***************************************************************************)
(* Verification model of despasito's vapour-liquid equilibrium core        *)
(* (thermodynamics/calc_newyi.py, thermodynamics/calc_types.py).           *)
(*                                                                         *)
(* The equation of state, the spline fit and scipy's solvers are external: *)
(* every value they hand back is drawn from a small set.  Everything the   *)
(* repository's own code does with those values is translated statement by *)
(* statement.                                                              *)
(*                                                                         *)
(* Numbers.  A specific volume is a grid index 1..MaxVol (the spline's     *)
(* roots and extrema come back in ascending order).  A density is kept     *)
(* symbolically, by the root it was derived from, because 1.0/root is not  *)
(* an integer: see NaN, Recip, Brentq, OptimizeResult below.  Pressures    *)
(* and objective values are small integers; only their sign and order are  *)
(* read by the code that is modelled.                                      *)
(***************************************************************************)
EXTENDS Integers, Sequences, FiniteSets, TLC

(***************************************************************************)
(* Bounds of the model.                                                    *)
(***************************************************************************)
\* Specific volumes are 1..MaxVol, so a curve has at most MaxVol roots.
MaxVol == 4
\* The derivative spline reports at most MaxExtrema extrema before truncation.
MaxExtrema == 3

(***************************************************************************)
(* State.  Each group belongs to one routine; a routine's actions leave    *)
(* the other groups alone.                                                 *)
(***************************************************************************)
VARIABLES
    \* calc_rhov / calc_rhol
    dpc,      \* density search: "idle" or "done"
    dfn,      \* which search ran: "none", "calc_rhov", "calc_rhol"
    din,      \* its inputs, a member of CurveInputs
    dout,     \* its outcome
    \* calc_Prange_xi / calc_Prange_yi
    ppc,      \* "idle", "loop", "returned", "raised"
    pfn,      \* "none", "calc_Prange_xi", "calc_Prange_yi"
    pz,       \* the loop variable: z in calc_Prange_xi, j in calc_Prange_yi
    Parray,   \* the pressures tried
    ObjArray, \* the objective values beside them
    pEval,    \* per slot of ObjArray: was it computed (TRUE) or is it the initial 0
    pret,     \* what the call returned or raised
    \* solve_yi_xiT / solve_xi_yiT
    ipc,      \* "idle", "loop", "scan", "update", "after" (the loop is left), "returned", "raised"
    ifn,      \* "none", "solve_yi_xiT", "solve_xi_yiT"
    imaxiter, \* the maxiter argument
    iz,       \* the loop variable z
    icomp,    \* yi (resp. xi): the composition being iterated
    itotal,   \* yi_total (resp. xi_total)
    inew,     \* yinew (resp. xinew), once bound
    iphi,     \* phiv, flagv (resp. phil, flagl) of the latest calc_phiv / calc_phil
    iret,     \* what the call returned or raised
    \* module-level names of calc_newyi.py
    yi_global,
    xi_global,
    \* a batch: phase_xiT, phase_yiT or flash handing its points to the job
    bpc,      \* "idle", "next", "try", "guess", "solve", "except", "done", "aborted"
    bfn,      \* the wrapper the job maps over the inputs
    inputs,   \* the list of per-point arguments
    bi,       \* the number of the point in hand (0 before the first)
    bguess,   \* the composition calc_xT_phase / calc_yT_phase starts from
    bexc,     \* the exception in flight, "none" if there is none
    braised,  \* the points whose try block raised
    results,  \* the tuples the wrapper has returned so far
    \* one call of PvsRho, calc_Psat, calc_phiv or calc_phil
    qpc,      \* "idle", "returned", "raised"
    qfn,      \* the routine called, "none" when idle
    qin,      \* its arguments and what the EOS and the spline answered
    qout,     \* what it returned or raised
    \* the outer pressure solve of calc_xT_phase / calc_yT_phase for one point
    opc,      \* "idle", "bracket", "solve", "final", "returned", "raised"
    ofn,      \* "calc_xT_phase", "calc_yT_phase", "none" when idle
    ometh,    \* the meth argument
    oobj,     \* the objective solve_P_xiT (solve_P_yiT) over the pressure grid
    oP,       \* P, as a position on the grid
    oPrange,  \* the name Prange: unbound, or the pair calc_Prange_xi returned
    ocalls,   \* the bracket search and solver calls made so far, in order
    ohand,    \* what the bounded minimiser or brentq was handed
    oret,     \* what the call returned or raised
    \* one call of a routine of parameter_fitting/fit_funcs.py
    fpc,      \* "idle", "returned", "raised"
    ffn,      \* the routine called, "none" when idle
    fin,      \* its arguments and what the data sets answered
    fout,     \* what it returned or raised
    \* a serial sweep of phase_xiT / phase_yiT, with its dictionaries as objects
    wpc,      \* "idle", "run", "done", "raised"
    wfn,      \* "phase_xiT", "phase_yiT", "none" when idle
    wgiven,   \* sys_dict as the caller passed it
    wdicts,   \* the top-level dictionaries: opts at 0, the opts_tmp of point i at i
    wpo,      \* the one pressure_options dictionary, which every copy refers to
    wzo,      \* the one zi_opts dictionary, which every copy refers to
    winputs,  \* per point, the dictionary its argument tuple refers to
    wk,       \* the number of points the job has run
    wseen     \* per point run, what its worker was given and used

dvars == <<dpc, dfn, din, dout>>
pvars == <<ppc, pfn, pz, Parray, ObjArray, pEval, pret>>
ivars == <<ipc, ifn, imaxiter, iz, icomp, itotal, inew, iphi, iret>>
gvars == <<yi_global, xi_global>>
bvars == <<bpc, bfn, inputs, bi, bguess, bexc, braised, results>>
qvars == <<qpc, qfn, qin, qout>>
ovars == <<opc, ofn, ometh, oobj, oP, oPrange, ocalls, ohand, oret>>
fvars == <<fpc, ffn, fin, fout>>
wvars == <<wpc, wfn, wgiven, wdicts, wpo, wzo, winputs, wk, wseen>>

vars == <<dvars, pvars, ivars, gvars, bvars, qvars, ovars, fvars, wvars>>

\* What the actions of one routine leave alone.
notDensity == <<pvars, ivars, gvars, bvars, qvars, ovars, fvars, wvars>>
notPrange == <<dvars, ivars, bvars, qvars, ovars, fvars, wvars>>
notInner == <<dvars, pvars, bvars, qvars, ovars, fvars, wvars>>
notBatch == <<dvars, pvars, ivars, qvars, ovars, fvars, wvars>>
notCurve == <<dvars, pvars, ivars, gvars, bvars, ovars, fvars, wvars>>
notOuter == <<dvars, pvars, ivars, bvars, qvars, fvars, wvars>>
notFit == <<dvars, pvars, ivars, gvars, bvars, qvars, ovars, wvars>>
notSweep == <<dvars, pvars, ivars, gvars, bvars, qvars, ovars, fvars>>

(***************************************************************************)
(* Phase flags (calc_rhov docstring: "0 is vapor, 1 is liquid, 2 mean a    *)
(* critical fluid, 3 means that neither is true, 4 means we should assume  *)
(* ideal gas").                                                            *)
(***************************************************************************)
VAPOR == 0
LIQUID == 1
CRITICAL_FLUID == 2
NO_FLUID == 3
IDEAL_GAS_ASSUMED == 4

Flags == {VAPOR, LIQUID, CRITICAL_FLUID, NO_FLUID, IDEAL_GAS_ASSUMED}

\* Values a pressure-like quantity takes in the model: negative, zero, positive.
Signs == {-1, 0, 1}

(***************************************************************************)
(* Densities.                                                              *)
(***************************************************************************)
\* np.nan
NaN == [kind |-> "nan", v |-> 0]
\* 1.0 / roots[i], for the root at specific volume v
Recip(v) == [kind |-> "recip", v |-> v]
\* the float brentq returns: the zero of Pdiff inside [0.99/v, 1.01/v]
Brentq(v) == [kind |-> "brentq", v |-> v]
\* the scipy OptimizeResult object root(..., method="hybr") returns, started at 1/v
OptimizeResult(v) == [kind |-> "OptimizeResult", v |-> v]

\* A float, as opposed to an object that merely holds one.
IsFloat(rho) == rho.kind \in {"nan", "recip", "brentq"}

(***************************************************************************)
(* Ascending sequences over 1..n: what InterpolatedUnivariateSpline.roots  *)
(* returns.                                                                *)
(***************************************************************************)
IncSeqs(n, maxlen) ==
    {s \in UNION {[1..k -> 1..n] : k \in 0..maxlen} :
        \A i \in 1..(Len(s) - 1) : s[i] < s[i + 1]}

Last(s) == s[Len(s)]

(***************************************************************************)
(* What calc_rhov / calc_rhol read of one (P, T, xi, eos) call:            *)
(*   P        the target pressure                                          *)
(*   roots    Pvspline.roots() of the smoothed curve minus P               *)
(*   extrema  Pvspline.derivative().roots(), before PvsV_spline truncates  *)
(*   Proot    Pvspline(roots[0]), when there is a root                     *)
(*   Pext     Pvspline(max(extrema)) for the truncated list, when any      *)
(*   dLo,dHi  Pdiff at 0.99*rho_tmp and 1.01*rho_tmp                       *)
(* A spline is a function: where roots[0] is the extremum that is read,    *)
(* the two values are the same.                                            *)
(***************************************************************************)
Truncate(extrema) == IF Len(extrema) > 2 THEN SubSeq(extrema, 1, 2) ELSE extrema

\* max(extrema): the extrema are ascending, the largest is the last one kept.
MaxExtremum(extrema) == Last(extrema)

CurveInputs ==
    {c \in [P : Signs,
            roots : IncSeqs(MaxVol, MaxVol),
            extrema : IncSeqs(MaxVol, MaxExtrema),
            Proot : Signs, Pext : Signs, dLo : Signs, dHi : Signs] :
        /\ (Len(c.roots) = 0 => c.Proot = 0)
        /\ (Len(c.extrema) = 0 => c.Pext = 0)
        /\ (Len(c.roots) > 0 /\ Len(c.extrema) > 0
              /\ c.roots[1] = MaxExtremum(Truncate(c.extrema)) => c.Proot = c.Pext)}

\* PvsV_spline: the roots, and at most the first two extrema.
PvsV_spline(c) == [roots |-> c.roots, extrema |-> Truncate(c.extrema)]

NoCurve == [P |-> 0, roots |-> <<>>, extrema |-> <<>>,
            Proot |-> 0, Pext |-> 0, dLo |-> 0, dHi |-> 0]

\* The classification step's locals: flag and rho_tmp, bound or not.
Unbound == [bound |-> FALSE, flag |-> NO_FLUID, root |-> 0, rho_tmp |-> NaN]
Bound(flag, root) ==
    [bound |-> TRUE, flag |-> flag, root |-> root,
     rho_tmp |-> IF root = 0 THEN NaN ELSE Recip(root)]

\* calc_rhov with the two-root fallthrough keeping the density of roots[0]
\* beside flag 4 (the mutant C9 is checked against).
classify_rhov_KeepsRoot(c) ==
    LET s == PvsV_spline(c)
        roots == s.roots
        extrema == s.extrema
        l_roots == Len(roots)
    IN  IF l_roots = 0 THEN Bound(NO_FLUID, 0)
        ELSE IF l_roots = 1 THEN
            IF Len(extrema) = 0 THEN Bound(CRITICAL_FLUID, roots[1])
            ELSE IF (c.Proot + c.P) > (c.Pext + c.P) THEN Bound(LIQUID, roots[1])
            ELSE IF Len(extrema) > 1 THEN Bound(VAPOR, roots[1])
            ELSE Unbound
        ELSE IF l_roots = 2 THEN
            IF (c.Proot + c.P) < 0 THEN Bound(LIQUID, roots[1])
            ELSE Bound(IDEAL_GAS_ASSUMED, roots[1])
        ELSE Bound(VAPOR, roots[3])

\* calc_rhov, the if / elif chain on len(roots).
classify_rhov(c) ==
    LET s == PvsV_spline(c)
        roots == s.roots
        extrema == s.extrema
        l_roots == Len(roots)
    IN  IF l_roots = 0 THEN Bound(NO_FLUID, 0)
        ELSE IF l_roots = 1 THEN
            IF Len(extrema) = 0 THEN Bound(CRITICAL_FLUID, roots[1])
            ELSE IF (c.Proot + c.P) > (c.Pext + c.P) THEN Bound(LIQUID, roots[1])
            ELSE IF Len(extrema) > 1 THEN Bound(VAPOR, roots[1])
            ELSE Unbound
        ELSE IF l_roots = 2 THEN
            IF (c.Proot + c.P) < 0 THEN Bound(LIQUID, roots[1])
            ELSE Bound(IDEAL_GAS_ASSUMED, 0)
        ELSE Bound(VAPOR, roots[3])

\* calc_rhol with the one-root tests in the other order, the extrema count
\* before the comparison (the mutant C8 is checked against).
classify_rhol_CountFirst(c) ==
    LET s == PvsV_spline(c)
        roots == s.roots
        extrema == s.extrema
        l_roots == Len(roots)
    IN  IF l_roots = 0 THEN Bound(NO_FLUID, 0)
        ELSE IF l_roots = 2 THEN Bound(LIQUID, roots[1])
        ELSE IF l_roots = 1 THEN
            IF Len(extrema) = 0 THEN Bound(CRITICAL_FLUID, roots[1])
            ELSE IF Len(extrema) > 1 THEN Bound(VAPOR, roots[1])
            ELSE IF (c.Proot + c.P) > (c.Pext + c.P) THEN Bound(LIQUID, roots[1])
            ELSE Unbound
        ELSE Bound(LIQUID, roots[1])

\* calc_rhol, the if / elif chain on len(roots).
classify_rhol(c) ==
    LET s == PvsV_spline(c)
        roots == s.roots
        extrema == s.extrema
        l_roots == Len(roots)
    IN  IF l_roots = 0 THEN Bound(NO_FLUID, 0)
        ELSE IF l_roots = 2 THEN
            IF (c.Proot + c.P) < 0 THEN Bound(LIQUID, roots[1])
            ELSE Bound(LIQUID, roots[1])
        ELSE IF l_roots = 1 THEN
            IF Len(extrema) = 0 THEN Bound(CRITICAL_FLUID, roots[1])
            ELSE IF (c.Proot + c.P) > (c.Pext + c.P) THEN Bound(LIQUID, roots[1])
            ELSE IF Len(extrema) > 1 THEN Bound(VAPOR, roots[1])
            ELSE Unbound
        ELSE Bound(LIQUID, roots[1])

\* What a call hands back: a (density, flag) pair, or the exception it raised.
\* assigned: whether the classification bound flag; coarse: the root rho_tmp was
\* taken from (0 for NaN); refined: which solver produced the returned density.
Result(outcome, k, rho, how) ==
    [outcome |-> outcome, assigned |-> k.bound, flag |-> k.flag,
     coarse |-> k.root, rho |-> rho, refined |-> how]
Returned(k, rho) == Result("return", k, rho, "no")
RefinedBy(k, rho, how) == Result("return", k, rho, how)
Raised(k, exc) == Result(exc, k, NaN, "no")

\* calc_rhov after the classification: "if flag in [0,2]" reads flag.
refine_rhov(c, k) ==
    IF ~k.bound THEN Raised(k, "UnboundLocalError")
    ELSE IF k.flag \in {VAPOR, CRITICAL_FLUID} THEN
        IF c.dLo * c.dHi < 0 THEN RefinedBy(k, Brentq(k.root), "brentq")
        ELSE RefinedBy(k, OptimizeResult(k.root), "root")
    ELSE Returned(k, k.rho_tmp)

\* calc_rhol after the classification: brentq is called on every bracket, and
\* brentq raises ValueError when f(a) and f(b) have the same sign.
refine_rhol(c, k) ==
    IF ~k.bound THEN Raised(k, "UnboundLocalError")
    ELSE IF k.flag \in {LIQUID, CRITICAL_FLUID} THEN
        IF c.dLo * c.dHi > 0 THEN Raised(k, "ValueError")
        ELSE RefinedBy(k, Brentq(k.root), "brentq")
    ELSE Returned(k, k.rho_tmp)

calc_rhov(c) == refine_rhov(c, classify_rhov(c))
calc_rhol(c) == refine_rhol(c, classify_rhol(c))

NoResult == Result("none", Unbound, NaN, "no")

DensityInit ==
    /\ dpc = "idle"
    /\ dfn = "none"
    /\ din = NoCurve
    /\ dout = NoResult

\* One call of calc_rhov on some curve.
CallRhov ==
    /\ dpc = "idle"
    /\ \E c \in CurveInputs :
        /\ din' = c
        /\ dout' = calc_rhov(c)
    /\ dfn' = "calc_rhov"
    /\ dpc' = "done"
    /\ UNCHANGED notDensity

\* One call of calc_rhol on some curve.
CallRhol ==
    /\ dpc = "idle"
    /\ \E c \in CurveInputs :
        /\ din' = c
        /\ dout' = calc_rhol(c)
    /\ dfn' = "calc_rhol"
    /\ dpc' = "done"
    /\ UNCHANGED notDensity

\* The caller takes the result; the next call starts from scratch.
DensityDone ==
    /\ dpc = "done"
    /\ dpc' = "idle"
    /\ dfn' = "none"
    /\ din' = NoCurve
    /\ dout' = NoResult
    /\ UNCHANGED notDensity

DensityNext == CallRhov \/ CallRhol \/ DensityDone

(***************************************************************************)
(* Claims about the density searches (checked under SpecDensity).          *)
(***************************************************************************)
DRoots == PvsV_spline(din).roots
DExtrema == PvsV_spline(din).extrema
DCalled == dpc = "done"

\* C1: for every root count and every extrema count, both density searches
\* assign a phase flag and return a (density, flag) pair; no combination
\* leaves the classification without a flag.
C1_EveryCaseFlagged ==
    DCalled => /\ dout.assigned
               /\ dout.outcome # "UnboundLocalError"
               /\ dout.flag \in Flags

\* C6: with three or more roots calc_rhov selects the last root and reports
\* VAPOR, calc_rhol selects the first root and reports LIQUID; the coarse
\* density is the reciprocal of the selected root.
C6_ThreeOrMoreRoots ==
    (DCalled /\ Len(DRoots) >= 3) =>
        /\ dfn = "calc_rhov" => (dout.flag = VAPOR /\ dout.coarse = Last(DRoots))
        /\ dfn = "calc_rhol" => (dout.flag = LIQUID /\ dout.coarse = DRoots[1])

\* C7: with exactly two roots both searches return LIQUID with the density of
\* roots[0] when the curve value at the first root is negative, and otherwise
\* IDEAL_GAS_ASSUMED with a NaN density; neither raises, whatever the sign of
\* the target pressure.
C7_TwoRoots ==
    (DCalled /\ Len(DRoots) = 2) =>
        /\ dout.outcome = "return"
        /\ IF (din.Proot + din.P) < 0
           THEN dout.flag = LIQUID /\ dout.coarse = DRoots[1] /\ dout.rho # NaN
           ELSE dout.flag = IDEAL_GAS_ASSUMED /\ dout.rho = NaN

\* C8: with exactly one root, in calc_rhov and calc_rhol alike: no extrema
\* gives CRITICAL_FLUID; otherwise a curve value at the root above the value at
\* the extremum of largest specific volume gives LIQUID; otherwise two extrema
\* give VAPOR.  In each case the coarse density is 1/roots[0].
C8_OneRoot ==
    (DCalled /\ Len(DRoots) = 1) =>
        /\ Len(DExtrema) = 0 =>
              (dout.assigned /\ dout.flag = CRITICAL_FLUID /\ dout.coarse = DRoots[1])
        /\ (Len(DExtrema) >= 1 /\ din.Proot > din.Pext) =>
              (dout.assigned /\ dout.flag = LIQUID /\ dout.coarse = DRoots[1])
        /\ (Len(DExtrema) = 2 /\ ~(din.Proot > din.Pext)) =>
              (dout.assigned /\ dout.flag = VAPOR /\ dout.coarse = DRoots[1])

\* Witness of C8: the liquid search met one root and two extrema, the root not
\* above the furthest extremum, and reported VAPOR at 1/roots[0].
C8_Witness ==
    /\ DCalled /\ dfn = "calc_rhol"
    /\ Len(DRoots) = 1 /\ Len(DExtrema) = 2 /\ din.Proot <= din.Pext
    /\ dout.outcome = "return" /\ dout.flag = VAPOR /\ dout.rho = Recip(DRoots[1])

RootSet == {DRoots[i] : i \in 1..Len(DRoots)}

\* C9: a returned flag 3 or 4 comes with a NaN density; zero roots always
\* gives flag 3; a returned flag 0, 1 or 2 comes with a density derived from
\* one of the roots, never NaN.
C9_FlagDensity ==
    DCalled =>
        /\ Len(DRoots) = 0 => (dout.outcome = "return" /\ dout.flag = NO_FLUID)
        /\ dout.outcome = "return" =>
            /\ dout.flag \in {NO_FLUID, IDEAL_GAS_ASSUMED} => dout.rho = NaN
            /\ dout.flag \in {VAPOR, LIQUID, CRITICAL_FLUID} =>
                  (dout.rho # NaN /\ dout.rho.v \in RootSet)

\* Witness of C9: the vapor search met two roots, the first not negative, and
\* returned IDEAL_GAS_ASSUMED with NaN.
C9_Witness ==
    /\ DCalled /\ dfn = "calc_rhov" /\ Len(DRoots) = 2
    /\ dout.outcome = "return" /\ dout.flag = IDEAL_GAS_ASSUMED /\ dout.rho = NaN

\* C10: once a coarse root is selected for refinement and the residual has the
\* same sign at both ends of [0.99*rho, 1.01*rho], a fallback solve started
\* from the coarse estimate is used and a plain numeric density is returned,
\* without raising.
Refines(fn, flag) ==
    \/ fn = "calc_rhov" /\ flag \in {VAPOR, CRITICAL_FLUID}
    \/ fn = "calc_rhol" /\ flag \in {LIQUID, CRITICAL_FLUID}

C10_FallbackReturnsNumber ==
    (DCalled /\ dout.assigned /\ Refines(dfn, dout.flag) /\ din.dLo * din.dHi > 0) =>
        /\ dout.outcome = "return"
        /\ dout.refined = "root"
        /\ IsFloat(dout.rho) /\ dout.rho # NaN

(***************************************************************************)
(* The pressure-bracket searches, calc_Prange_xi and calc_Prange_yi.       *)
(*                                                                         *)
(* One evaluation of the objective is calc_phil + solve_yi_xiT (resp.      *)
(* calc_phiv + solve_xi_yiT) followed by np.sum(...) - 1.0: it yields a    *)
(* finite number or lets an exception of the inner code through.           *)
(***************************************************************************)
\* The loop budget, "maxiter = 200" in calc_Prange_xi, scaled down.
PrMaxIter == 5
\* Objective values are -MaxObj..MaxObj.
MaxObj == 2

\* A module-level composition name: not bound yet, or bound to a vector.
Unset == [set |-> FALSE, comp |-> [nan |-> TRUE, v |-> <<0, 0>>]]
SetTo(c) == [set |-> TRUE, comp |-> c]

\* What the inner solve of an evaluation leaves in yi_global (xi_global): it
\* binds the name when it converges, so always when it returns and sometimes
\* when the evaluation raises.
PrComps == {[nan |-> FALSE, v |-> <<1, 1>>], [nan |-> FALSE, v |-> <<1, 2>>]}
PrWrites == {Unset} \cup {SetTo(c) : c \in PrComps}

\* One objective evaluation: calc_phil (calc_phiv), the inner solve and the sum.
ObjVals == (0 - MaxObj)..MaxObj
Evaluations ==
    {[ok |-> TRUE, v |-> v, g |-> SetTo(c)] : v \in ObjVals, c \in PrComps}
        \cup {[ok |-> FALSE, v |-> 0, g |-> w] : w \in PrWrites}

PrWrite(fn, g) ==
    IF ~g.set THEN UNCHANGED gvars
    ELSE IF fn = "calc_Prange_xi"
    THEN yi_global' = g /\ UNCHANGED xi_global
    ELSE xi_global' = g /\ UNCHANGED yi_global

\* Pmin as the callers pass it (the default is 1000) and the curve's pressure
\* at its extrema, of which the largest becomes Pmax.
PminVals == {10, 1000}
ExtremaPressures == {500, 4000}

Abs(x) == IF x < 0 THEN 0 - x ELSE x
SetMax(S) == CHOOSE x \in S : \A y \in S : y <= x
LastTwo(s) == SubSeq(s, Len(s) - 1, Len(s))

\* A pressure guess: the float (num / den), or nan.
NoGuess == [bound |-> FALSE, nan |-> FALSE, num |-> 0, den |-> 1]
Guess(num, den) ==
    IF den = 0 THEN [bound |-> TRUE, nan |-> TRUE, num |-> 0, den |-> 1]
    ELSE [bound |-> TRUE, nan |-> FALSE, num |-> num, den |-> den]

\* slope = (o1 - o0) / (p1 - p0); intercept = o1 - slope * p1;
\* Pguess = -intercept / slope, in floating point: nan when p1 = p0 (inf/inf)
\* or o1 = o0 (0/0), and (p1 * (o1 - o0) - o1 * (p1 - p0)) / (o1 - o0) otherwise.
Interpolate(p0, p1, o0, o1) ==
    IF p1 = p0 THEN Guess(0, 0)
    ELSE Guess(p1 * (o1 - o0) - o1 * (p1 - p0), o1 - o0)

NoReturn ==
    [outcome |-> "none", Prange |-> <<>>, ObjRange |-> <<>>, Evaluated |-> <<>>,
     Pguess |-> NoGuess]
\* The statements after the loop: Prange = Parray[-2:], ObjRange = ObjArray[-2:],
\* the log line that reads Pguess, and the return.
AfterLoop(parr, oarr, ev, guess) ==
    IF ~guess.bound
    THEN [NoReturn EXCEPT !.outcome = "UnboundLocalError"]
    ELSE [outcome |-> "return", Prange |-> LastTwo(parr), ObjRange |-> LastTwo(oarr),
          Evaluated |-> LastTwo(ev), Pguess |-> guess]
PrRaise(exc) == [NoReturn EXCEPT !.outcome = exc]

PrangeInit ==
    /\ ppc = "idle"
    /\ pfn = "none"
    /\ pz = 0
    /\ Parray = <<>>
    /\ ObjArray = <<>>
    /\ pEval = <<>>
    /\ pret = NoReturn

\* Either search up to its loop: Pmax = max(Pvspline(extrema)), which raises
\* ValueError on an empty list; Parray = [Pmin, Pmax]; ObjArray = [0, 0].
\* calc_Prange_yi first runs its plotting block, 50 objective evaluations that
\* may raise.
PrStart(fn) ==
    /\ ppc = "idle"
    /\ pfn' = fn
    /\ pz' = 0
    /\ \E Pmin \in PminVals, ext \in SUBSET ExtremaPressures, test \in Evaluations :
        IF ext = {} THEN
            /\ ppc' = "raised"
            /\ pret' = PrRaise("ValueError")
            /\ UNCHANGED <<Parray, ObjArray, pEval, gvars>>
        ELSE IF fn = "calc_Prange_yi" /\ ~test.ok THEN
            /\ ppc' = "raised"
            /\ pret' = PrRaise("Exception")
            /\ PrWrite(fn, test.g)
            /\ UNCHANGED <<Parray, ObjArray, pEval>>
        ELSE
            /\ ppc' = "loop"
            /\ Parray' = <<Pmin, SetMax(ext)>>
            /\ ObjArray' = <<0, 0>>
            /\ pEval' = <<FALSE, FALSE>>
            /\ pret' = NoReturn
            /\ IF fn = "calc_Prange_yi" THEN PrWrite(fn, test.g) ELSE UNCHANGED gvars
    /\ UNCHANGED notPrange

PrXiStart == PrStart("calc_Prange_xi")
PrYiStart == PrStart("calc_Prange_yi")

\* The sign test of calc_Prange_xi: tmp_dif > tmp_sum.
XiSignChange(a, b) == Abs(a - b) > Abs(a + b)
\* The sign test of calc_Prange_yi: tmp_dif >= tmp_sum.
YiSignChange(a, b) == Abs(a - b) >= Abs(a + b)

\* The loop header of calc_Prange_xi left where it is
NextPass_Same(z) == z
\* "for z in range(maxiter)": the value z takes for the next pass
NextPass(z) == z + 1

\* One pass of "for z in range(maxiter)" in calc_Prange_xi.
PrXiPass ==
    /\ ppc = "loop" /\ pfn = "calc_Prange_xi" /\ pz < PrMaxIter
    /\ \E e \in Evaluations :
        LET n == Len(ObjArray) IN
        IF pz \in {0, 1} THEN
            \* objective at Parray[0], then at Parray[1]
            IF ~e.ok
            THEN /\ ppc' = "raised" /\ pret' = PrRaise("Exception")
                 /\ PrWrite(pfn, e.g)
                 /\ UNCHANGED <<pz, Parray, ObjArray, pEval>>
            ELSE /\ ObjArray' = [ObjArray EXCEPT ![pz + 1] = e.v]
                 /\ pEval' = [pEval EXCEPT ![pz + 1] = TRUE]
                 /\ pz' = NextPass(pz)
                 /\ PrWrite(pfn, e.g)
                 /\ UNCHANGED <<ppc, Parray, pret>>
        ELSE IF XiSignChange(ObjArray[n - 1], ObjArray[n]) THEN
            \* break, then the statements after the loop; "yi_global = yi_range"
            \* binds the name to what the last inner solve bound it to
            /\ ppc' = "returned"
            /\ pret' = AfterLoop(Parray, ObjArray, pEval,
                          Interpolate(Parray[n - 1], Parray[n],
                                      ObjArray[n - 1], ObjArray[n]))
            /\ UNCHANGED <<pz, Parray, ObjArray, pEval, gvars>>
        ELSE IF pz = PrMaxIter THEN
            /\ ppc' = "raised" /\ pret' = PrRaise("ValueError")
            /\ UNCHANGED <<pz, Parray, ObjArray, pEval, gvars>>
        ELSE IF ~e.ok
            THEN /\ ppc' = "raised" /\ pret' = PrRaise("Exception")
                 /\ PrWrite(pfn, e.g)
                 /\ UNCHANGED <<pz, Parray, ObjArray, pEval>>
            ELSE /\ Parray' = Append(Parray, 2 * Parray[n])
                 /\ ObjArray' = Append(ObjArray, e.v)
                 /\ pEval' = Append(pEval, TRUE)
                 /\ pz' = NextPass(pz)
                 /\ PrWrite(pfn, e.g)
                 /\ UNCHANGED <<ppc, pret>>
    /\ UNCHANGED <<pfn, notPrange>>

\* range(maxiter) is used up without a break: the statements after the loop run
\* with Pguess never assigned.
PrXiExhausted ==
    /\ ppc = "loop" /\ pfn = "calc_Prange_xi" /\ pz = PrMaxIter
    /\ pret' = AfterLoop(Parray, ObjArray, pEval, NoGuess)
    /\ ppc' = "raised"
    /\ UNCHANGED <<pfn, pz, Parray, ObjArray, pEval, gvars, notPrange>>

\* The index i of pass j in "for j,i in enumerate([0,1,0])", 1-based.
YiSlot(j) == <<1, 2, 1>>[j + 1]
YiPasses == 3
\* newPmin = 10
newPmin == 10

\* One pass of the loop of calc_Prange_yi.
PrYiPass ==
    /\ ppc = "loop" /\ pfn = "calc_Prange_yi" /\ pz < YiPasses
    /\ \E e \in Evaluations :
        LET i == YiSlot(pz)
            \* "if ObjArray[i] < 1e-3: ObjArray[i] = 0.0" on the slot of Pmax;
            \* the model's positive values stand for values above 1e-3
            v == IF i = 2 /\ e.v < 1 THEN 0 ELSE e.v
            objs == [ObjArray EXCEPT ![i] = v]
        IN
        IF ~e.ok
        THEN /\ ppc' = "raised" /\ pret' = PrRaise("Exception")
             /\ PrWrite(pfn, e.g)
             /\ UNCHANGED <<pz, Parray, ObjArray, pEval>>
        ELSE
            /\ ObjArray' = objs
            /\ pEval' = [pEval EXCEPT ![i] = TRUE]
            /\ PrWrite(pfn, e.g)
            /\ IF pz < 2 THEN
                  IF YiSignChange(objs[1], objs[2]) THEN
                      \* break, then the statements after the loop
                      /\ ppc' = "returned"
                      /\ pret' = AfterLoop(Parray, objs, [pEval EXCEPT ![i] = TRUE],
                                    Interpolate(Parray[1], Parray[2], objs[1], objs[2]))
                      /\ UNCHANGED <<pz, Parray>>
                  ELSE IF Parray[1] # newPmin THEN
                      /\ Parray' = [Parray EXCEPT ![1] = newPmin]
                      /\ pz' = pz + 1
                      /\ UNCHANGED <<ppc, pret>>
                  ELSE
                      /\ ppc' = "raised" /\ pret' = PrRaise("ValueError")
                      /\ UNCHANGED <<pz, Parray>>
               ELSE
                  \* the last pass makes no test; the statements after the loop
                  \* then read Pguess, which no pass assigned
                  /\ ppc' = "raised"
                  /\ pret' = AfterLoop(Parray, objs, [pEval EXCEPT ![i] = TRUE], NoGuess)
                  /\ UNCHANGED <<pz, Parray>>
    /\ UNCHANGED <<pfn, notPrange>>

\* The caller takes the bracket, or the exception; the next call starts afresh.
PrDone ==
    /\ ppc \in {"returned", "raised"}
    /\ ppc' = "idle"
    /\ pfn' = "none"
    /\ pz' = 0
    /\ Parray' = <<>>
    /\ ObjArray' = <<>>
    /\ pEval' = <<>>
    /\ pret' = NoReturn
    /\ UNCHANGED <<gvars, notPrange>>

PrangeNext ==
    \/ PrXiStart \/ PrXiPass \/ PrXiExhausted
    \/ PrYiStart \/ PrYiPass
    \/ PrDone

(***************************************************************************)
(* Claims about the bracket searches (checked under SpecPrange).           *)
(***************************************************************************)
\* C2: whenever calc_Prange_xi or calc_Prange_yi returns (Prange, Pguess), the
\* objective was evaluated at Prange[0] and at Prange[1] and the two values
\* have strictly opposite signs.
C2_BracketOppositeSigns ==
    ppc = "returned" =>
        /\ pret.outcome = "return"
        /\ pret.Evaluated = <<TRUE, TRUE>>
        /\ pret.ObjRange[1] * pret.ObjRange[2] < 0

\* C16: when calc_Prange_xi uses up its iteration budget without a break, it
\* leaves with the bracket-search failure (the ValueError 'A change in sign for
\* the objective function could not be found'), and with nothing else.
C16_ExhaustionRaisesSearchFailure ==
    (ppc = "raised" /\ pfn = "calc_Prange_xi" /\ pz = PrMaxIter) =>
        pret.outcome = "ValueError"

\* The objective evaluations calc_Prange_xi has made so far.
XiEvaluations == Cardinality({i \in 1..Len(pEval) : pEval[i]})

MaxInnerIter == 3
\* 1.0 in units of tol.
One == 3
\* tol (default 1e-6) in its own unit.
Tol == 1

RECURSIVE Gcd(_, _)
Gcd(a, b) == IF b = 0 THEN a ELSE Gcd(b, a % b)

RECURSIVE GcdSeq(_)
GcdSeq(v) == IF Len(v) = 0 THEN 0 ELSE Gcd(Head(v), GcdSeq(Tail(v)))

\* np.nan * np.ones(n); also what any arithmetic on a vector with a NaN sum gives
NaNVec(n) == [nan |-> TRUE, v |-> [i \in 1..n |-> 0]]
\* x / np.sum(x) of a finite vector with a positive sum
Normalise(v) == [nan |-> FALSE, v |-> [i \in 1..Len(v) |-> v[i] \div GcdSeq(v)]]
Normalised(a, b) == Normalise(<<a, b>>)
NaNComp == NaNVec(2)

\* xi * phil / phiv for finite fugacity coefficients: non-negative mole
\* numbers whose sum is within one tol of 1.0
MoleNumbers ==
    {m \in [a : 0..(One + 1), b : 0..(One + 1)] : m.a + m.b \in (One - 1)..(One + 1)}
Compositions == {Normalised(m.a, m.b) : m \in MoleNumbers}

NoMole == [bound |-> FALSE, nan |-> FALSE, a |-> 0, b |-> 0]
Mole(m) == [bound |-> TRUE, nan |-> FALSE, a |-> m.a, b |-> m.b]
NaNMole == [bound |-> TRUE, nan |-> TRUE, a |-> 0, b |-> 0]

\* What calc_phiv / calc_phil hand back: an exception out of the density search
\* or the EOS, or fugacity coefficients (NaN or finite) and the flag.  Flag 4
\* comes with np.ones_like(yi), flag 3 with a NaN density and hence NaN.
PhiResponses ==
    {r \in [ok : BOOLEAN, nan : BOOLEAN, flag : Flags] :
        /\ (~r.ok => (r.nan = FALSE /\ r.flag = NO_FLUID))
        /\ (r.flag = IDEAL_GAS_ASSUMED => ~r.nan)
        /\ (r.ok /\ r.flag = NO_FLUID => r.nan)}
NoPhi == [ok |-> TRUE, nan |-> FALSE, flag |-> NO_FLUID]

\* What find_new_yi hands back: an exception of one of its calc_phiv calls, or
\* [y, 1 - y] for a grid value y, or [nan, nan] when no candidate is valid.
\* Only the candidate's NaN-ness is used: the candidate goes to calc_phiv and
\* np.isnan and is then overwritten by xi * phil / phiv.
ScanResponses == {r \in [ok : BOOLEAN, nan : BOOLEAN] : ~r.ok => ~r.nan}

\* The phase the loop is not looking for.
WrongFlag(fn) == IF fn = "solve_yi_xiT" THEN LIQUID ELSE VAPOR

NoInner ==
    [outcome |-> "none", at |-> "none", comp |-> NaNComp, phinan |-> FALSE,
     flag |-> NO_FLUID, converged |-> FALSE]
InnerRaise(exc, where) == [NoInner EXCEPT !.outcome = exc, !.at = where]

InnerInit ==
    /\ ipc = "idle"
    /\ ifn = "none"
    /\ imaxiter = 0
    /\ iz = 0
    /\ icomp = NaNComp
    /\ itotal = 0
    /\ inew = NoMole
    /\ iphi = NoPhi
    /\ iret = NoInner

GlobalInit ==
    /\ yi_global = Unset
    /\ xi_global = Unset

\* The statements before the loop: "yi /= np.sum(yi)", "yi_total = np.sum(yi)".
InnerStart(fn) ==
    /\ ipc = "idle"
    /\ ifn' = fn
    /\ \E n \in 1..MaxInnerIter, guess \in Compositions :
        /\ imaxiter' = n
        /\ icomp' = guess
    /\ itotal' = One
    /\ iz' = 0
    /\ inew' = NoMole
    /\ iphi' = NoPhi
    /\ iret' = NoInner
    /\ ipc' = "loop"
    /\ UNCHANGED <<gvars, notInner>>

SolveYiStart == InnerStart("solve_yi_xiT")
SolveXiStart == InnerStart("solve_xi_yiT")

\* abs(np.sum(yinew) - yi_total) < tol; a NaN on either side compares False.
\* yi_total is NaN exactly when the composition it was computed with is.
Converged(new, comp, total) ==
    /\ ~new.nan
    /\ ~comp.nan
    /\ Abs((new.a + new.b) - total) < Tol

\* An exception leaves the loop body.
InnerThrow(exc) ==
    /\ ipc' = "raised"
    /\ iret' = InnerRaise(exc, "loop")
    /\ UNCHANGED <<iz, icomp, itotal, inew, iphi, gvars>>

\* The first statements of a pass of "for z in range(maxiter)": calc_phiv
\* (calc_phil) on the current composition and the test of its result.  On NaN
\* or the other phase solve_xi_yiT raises; solve_yi_xiT goes on to find_new_yi.
InnerPhi ==
    /\ ipc = "loop"
    /\ \E r1 \in PhiResponses :
        IF ~r1.ok THEN InnerThrow("Exception")
        ELSE IF ~(r1.nan \/ r1.flag = WrongFlag(ifn)) THEN
            /\ iphi' = r1
            /\ ipc' = "update"
            /\ UNCHANGED <<iz, icomp, itotal, inew, iret, gvars>>
        ELSE IF ifn = "solve_xi_yiT" THEN InnerThrow("ValueError")
        ELSE
            /\ iphi' = r1
            /\ ipc' = "scan"
            /\ UNCHANGED <<iz, icomp, itotal, inew, iret, gvars>>
    /\ UNCHANGED <<ifn, imaxiter, notInner>>

\* solve_yi_xiT only: "yinew = find_new_yi(...)", calc_phiv on the candidate,
\* and "phiv = np.nan" when the candidate is NaN.
InnerScan ==
    /\ ipc = "scan"
    /\ \E scan \in ScanResponses :
        IF ~scan.ok THEN InnerThrow("Exception")
        ELSE \E r2 \in PhiResponses :
            IF ~r2.ok THEN InnerThrow("Exception")
            ELSE
                /\ iphi' = IF scan.nan THEN [r2 EXCEPT !.nan = TRUE] ELSE r2
                /\ ipc' = "update"
                /\ UNCHANGED <<iz, icomp, itotal, inew, iret, gvars>>
    /\ UNCHANGED <<ifn, imaxiter, notInner>>

\* The mole numbers computed from the coefficients: NaN when they are NaN.
InnerMoles(phi) == IF phi.nan THEN {NaNMole} ELSE {Mole(m) : m \in MoleNumbers}

\* "yinew = xi * phil / phiv", the convergence test and its two branches, and
\* the loop header's next value.
InnerUpdate ==
    /\ ipc = "update"
    /\ \E new \in InnerMoles(iphi) :
        /\ inew' = new
        /\ iret' = [NoInner EXCEPT !.converged = Converged(new, icomp, itotal)]
        /\ IF Converged(new, icomp, itotal) THEN
              \* "yi_global = yi" (resp. "xi_global = xi"), then break
              /\ IF ifn = "solve_yi_xiT"
                 THEN yi_global' = SetTo(icomp) /\ UNCHANGED xi_global
                 ELSE xi_global' = SetTo(icomp) /\ UNCHANGED yi_global
              /\ ipc' = "after"
              /\ UNCHANGED <<iz, icomp, itotal>>
           ELSE
              \* "yi = yinew/np.sum(yinew)", "yi_total = np.sum(yinew)"
              /\ icomp' = IF new.nan THEN NaNComp ELSE Normalised(new.a, new.b)
              /\ itotal' = IF new.nan THEN 0 ELSE new.a + new.b
              /\ IF iz + 1 < imaxiter
                 THEN iz' = iz + 1 /\ ipc' = "loop"
                 ELSE iz' = iz /\ ipc' = "after"
              /\ UNCHANGED gvars
    /\ UNCHANGED <<ifn, imaxiter, iphi, notInner>>

\* The statements after the loop: "yinew /= np.sum(yinew)"; the warning under
\* "if z == maxiter - 1", which reads ind_tmp before the next statement binds
\* it; "ind_tmp = np.where(...)"; the log line; "return yi, phiv, flagv".
InnerAfter ==
    /\ ipc = "after"
    /\ IF iz = imaxiter - 1
       THEN /\ ipc' = "raised"
            /\ iret' = [iret EXCEPT !.outcome = "UnboundLocalError", !.at = "after"]
       ELSE /\ ipc' = "returned"
            /\ iret' = [iret EXCEPT !.outcome = "return", !.at = "after",
                                    !.comp = icomp, !.phinan = iphi.nan,
                                    !.flag = iphi.flag]
    /\ UNCHANGED <<ifn, imaxiter, iz, icomp, itotal, inew, iphi, gvars, notInner>>

\* The caller takes the result or the exception.  The module-level names stay.
InnerDone ==
    /\ ipc \in {"returned", "raised"}
    /\ ipc' = "idle"
    /\ ifn' = "none"
    /\ imaxiter' = 0
    /\ iz' = 0
    /\ icomp' = NaNComp
    /\ itotal' = 0
    /\ inew' = NoMole
    /\ iphi' = NoPhi
    /\ iret' = NoInner
    /\ UNCHANGED <<gvars, notInner>>

InnerNext ==
    \/ SolveYiStart \/ SolveXiStart
    \/ InnerPhi \/ InnerScan \/ InnerUpdate
    \/ InnerAfter \/ InnerDone

(***************************************************************************)
(* Claims about the inner loops (checked under SpecInner).                 *)
(***************************************************************************)
\* An inner loop makes at most maxiter passes, and a pass whose convergence
\* test holds is the last one (an invariant of SpecInner).
InnerLoopBounded ==
    /\ ipc # "idle" => iz < imaxiter
    /\ (ipc \in {"after", "returned"} /\ ~iret.converged) => iz = imaxiter - 1

\* C3: when solve_yi_xiT or solve_xi_yiT leaves its loop on the last allowed
\* iteration, whether the convergence test failed there or first passed there,
\* it returns normally (composition, fugacity coefficients, flag) and raises
\* no exception.
C3_LastIterationReturns ==
    (ipc \in {"returned", "raised"} /\ iret.at = "after" /\ iz = imaxiter - 1) =>
        iret.outcome = "return"

\* The update step at a composition: yinew / np.sum(yinew) (xinew / np.sum(xinew)),
\* compared entry by entry with the composition yinew was computed at.  Mole
\* fractions differ by less than tol when One * |new_i / sum(new) - c_i / sum(c)|
\* is below Tol.
StepWithinTol(comp, new) ==
    LET cs == comp.v[1] + comp.v[2]
        ns == new.a + new.b
        nv == <<new.a, new.b>>
    IN \A i \in 1..2 : One * Abs(nv[i] * cs - comp.v[i] * ns) < Tol * ns * cs

\* C14: when solve_yi_xiT or solve_xi_yiT leaves through its convergence test
\* and returns C*, one more update step at C* (the normalised mole numbers
\* computed there) is within tol of C* in every component.
C14_ReturnsFixedPoint ==
    (ipc = "returned" /\ iret.converged) => StepWithinTol(iret.comp, inew)

\* C15: in both inner loops a trial composition that gives the other phase or
\* NaN coefficients sends the loop to the composition scan and on to the next
\* step; the loop does not leave with the exception raised for that case.
C15_WrongPhaseGoesToScan ==
    (ipc = "raised" /\ iret.at = "loop") => iret.outcome # "ValueError"

(***************************************************************************)
(* A batch of points: phase_xiT, phase_yiT and flash build the list of     *)
(* per-point arguments and hand it with a wrapper to the job, which calls  *)
(* the wrapper on each element in turn and collects what it returns.  The  *)
(* serial job runs in the calling process, so the module-level names of    *)
(* calc_newyi.py live on from one point to the next and from one batch to  *)
(* the next.                                                               *)
(***************************************************************************)
\* The largest number of points in a batch.
MaxPoints == 2

Wrappers == {"_phase_xiT_wrapper", "_phase_yiT_wrapper", "_flash_wrapper"}

\* Everything "except:" is offered.
Exceptions == {"ValueError", "UnboundLocalError", "KeyboardInterrupt"}

\* A float that is not NaN.
SomeFloat == [kind |-> "float", v |-> 0]

\* The given compositions, in units of 1/One: a pure component, a binary
\* mixture, a binary set that sums to less than one, and a ternary mixture.
PointComps == {<<One, 0>>, <<1, One - 1>>, <<1, 1>>, <<1, 1, One - 2>>}

\* What calc_Psat (and setPsat after it) gives for the components at the
\* point's temperature: an exception, a NaN entry, or the vector.
PsatResponses(n) ==
    {[ok |-> FALSE, nan |-> FALSE, v |-> [i \in 1..n |-> 1]],
     [ok |-> TRUE, nan |-> TRUE, v |-> [i \in 1..n |-> 1]],
     [ok |-> TRUE, nan |-> FALSE, v |-> [i \in 1..n |-> 1]],
     [ok |-> TRUE, nan |-> FALSE, v |-> [i \in 1..n |-> IF i = 1 THEN 2 ELSE 1]]}

\* One element of inputs.  T and eos appear as the saturation pressures they
\* determine; the flash wrapper is given T and P, and eos has two components.
PhasePoints ==
    UNION {{[z |-> z, Psat |-> r] : r \in PsatResponses(Len(z))} : z \in PointComps}
FlashPoints == {[z |-> <<0, 0>>, Psat |-> r] : r \in {rr \in PsatResponses(2) : ~rr.ok}}
Points(w) == IF w = "_flash_wrapper" THEN FlashPoints ELSE PhasePoints
number_of_components == 2

SeqsUpTo(S, n) == UNION {[1..k -> S] : k \in 1..n}

RECURSIVE Prod(_)
Prod(v) == IF Len(v) = 0 THEN 1 ELSE Head(v) * Prod(Tail(v))

\* len(xi[xi != 0.]) == 1
IsPure(z) == Cardinality({i \in 1..Len(z) : z[i] # 0}) = 1

\* calc_xT_phase: xi * Psat / P, normalised.
RaoultYi(pt) ==
    IF pt.Psat.nan THEN NaNVec(Len(pt.z))
    ELSE Normalise([i \in 1..Len(pt.z) |-> pt.z[i] * pt.Psat.v[i]])
\* calc_yT_phase: P * (yi / Psat), normalised.
RaoultXi(pt) ==
    IF pt.Psat.nan THEN NaNVec(Len(pt.z))
    ELSE Normalise([i \in 1..Len(pt.z) |->
                       pt.z[i] * (Prod(pt.Psat.v) \div pt.Psat.v[i])])
OwnGuess(w, pt) == IF w = "_phase_xiT_wrapper" THEN RaoultYi(pt) ELSE RaoultXi(pt)

\* The compositions and flags a solved point may come back with.
SolveComps(n) == {[nan |-> FALSE, v |-> [i \in 1..n |-> IF i = n THEN 3 ELSE 1]]}
SolveFlags == {<<VAPOR, LIQUID>>, <<IDEAL_GAS_ASSUMED, LIQUID>>}

PhaseResult(P, comp, flagv, flagl, obj) ==
    [P |-> P, comp |-> comp, flagv |-> flagv, flagl |-> flagl, obj |-> obj]
FlashResult(xi, yi, flagv, flagl, obj) ==
    [xi |-> xi, yi |-> yi, flagv |-> flagv, flagl |-> flagl, obj |-> obj]

\* Does the wrapper's "except:" clause take this exception?
Catches_OnlyValueError(exc) == exc = "ValueError"
Catches(exc) == TRUE

\* The value of the wrapper's except block.
except_result(w, pt) ==
    IF w = "_flash_wrapper"
    THEN FlashResult(NaNVec(number_of_components), NaNVec(number_of_components),
                     NO_FLUID, NO_FLUID, NaN)
    ELSE PhaseResult(NaN, NaNVec(Len(pt.z)), NO_FLUID, NO_FLUID, NaN)

BatchInit ==
    /\ bpc = "idle"
    /\ bfn = "none"
    /\ inputs = <<>>
    /\ bi = 0
    /\ bguess = Unset
    /\ bexc = "none"
    /\ braised = {}
    /\ results = <<>>

\* phase_xiT / phase_yiT / flash: the inputs are built and the job starts.
BatchStart ==
    /\ bpc = "idle"
    /\ \E w \in Wrappers :
        /\ bfn' = w
        /\ inputs' \in SeqsUpTo(Points(w), MaxPoints)
    /\ bi' = 0
    /\ bguess' = Unset
    /\ bexc' = "none"
    /\ braised' = {}
    /\ results' = <<>>
    /\ bpc' = "next"
    /\ UNCHANGED <<gvars, notBatch>>

\* The job calls the wrapper on the next element.
WrapperEnter ==
    /\ bpc = "next"
    /\ bi' = bi + 1
    /\ bguess' = Unset
    /\ bpc' = "try"
    /\ UNCHANGED <<bfn, inputs, bexc, braised, results, gvars, notBatch>>

\* The wrapper returns res and the job stores it.
Collect(res) ==
    /\ results' = Append(results, res)
    /\ bpc' = IF bi = Len(inputs) THEN "done" ELSE "next"

\* The try block raises exc.
Throw(exc) ==
    /\ bexc' = exc
    /\ braised' = braised \cup {bi}
    /\ bpc' = "except"
    /\ UNCHANGED results

\* _flash_wrapper's try block: calc.calc_flash raises or returns.
FlashTry ==
    /\ bpc = "try"
    /\ bfn = "_flash_wrapper"
    /\ \/ \E exc \in Exceptions : Throw(exc)
       \/ \E xi \in SolveComps(number_of_components),
             yi \in SolveComps(number_of_components), f \in SolveFlags :
            /\ Collect(FlashResult(xi, yi, f[1], f[2], SomeFloat))
            /\ UNCHANGED <<bexc, braised>>
    /\ UNCHANGED <<bfn, inputs, bi, bguess, gvars, notBatch>>

\* The try block of _phase_xiT_wrapper and _phase_yiT_wrapper up to the call of
\* calc_xT_phase / calc_yT_phase; a pure component is settled by calc_Psat.
PhaseTry ==
    /\ bpc = "try"
    /\ bfn # "_flash_wrapper"
    /\ LET pt == inputs[bi] IN
        IF ~IsPure(pt.z) THEN
            /\ bpc' = "guess"
            /\ UNCHANGED <<bexc, braised, results>>
        ELSE IF ~pt.Psat.ok THEN
            \E exc \in Exceptions : Throw(exc)
        ELSE
            /\ Collect(PhaseResult(IF pt.Psat.nan THEN NaN ELSE SomeFloat,
                                   Normalise(pt.z), VAPOR, LIQUID, SomeFloat))
            /\ UNCHANGED <<bexc, braised>>
    /\ UNCHANGED <<bfn, inputs, bi, bguess, gvars, notBatch>>

\* calc_xT_phase / calc_yT_phase up to "yi = yi_global" / "xi = xi_global": the
\* saturation pressures, then the starting composition, which is computed only
\* when the module-level name is not there or holds NaN.
PointGuess ==
    /\ bpc = "guess"
    /\ LET pt == inputs[bi]
           own == OwnGuess(bfn, pt)
           glob == IF bfn = "_phase_xiT_wrapper" THEN yi_global ELSE xi_global
           start == IF ~glob.set \/ glob.comp.nan THEN SetTo(own) ELSE glob
       IN
        IF ~pt.Psat.ok THEN
            /\ \E exc \in Exceptions : Throw(exc)
            /\ UNCHANGED <<bguess, gvars>>
        ELSE IF pt.Psat.nan /\ bfn = "_phase_yiT_wrapper" THEN
            /\ Throw("ValueError")
            /\ UNCHANGED <<bguess, gvars>>
        ELSE
            /\ IF bfn = "_phase_xiT_wrapper"
               THEN yi_global' = start /\ UNCHANGED xi_global
               ELSE xi_global' = start /\ UNCHANGED yi_global
            /\ bguess' = start
            /\ bpc' = "solve"
            /\ UNCHANGED <<bexc, braised, results>>
    /\ UNCHANGED <<bfn, inputs, bi, notBatch>>

\* The rest of calc_xT_phase / calc_yT_phase: the bracket, the outer solver and
\* the last inner solve.  It raises, having perhaps rebound the module-level
\* name, or returns and leaves the returned composition in it.
PointSolve ==
    /\ bpc = "solve"
    /\ LET n == Len(inputs[bi].z) IN
        \/ /\ \E exc \in Exceptions : Throw(exc)
           /\ \E g \in {bguess} \cup {SetTo(c) : c \in SolveComps(n)} :
                IF bfn = "_phase_xiT_wrapper"
                THEN yi_global' = g /\ UNCHANGED xi_global
                ELSE xi_global' = g /\ UNCHANGED yi_global
        \/ \E c \in SolveComps(n), f \in SolveFlags, obj \in {SomeFloat, NaN} :
            /\ Collect(PhaseResult(SomeFloat, c, f[1], f[2], obj))
            /\ IF bfn = "_phase_xiT_wrapper"
               THEN yi_global' = SetTo(c) /\ UNCHANGED xi_global
               ELSE xi_global' = SetTo(c) /\ UNCHANGED yi_global
            /\ UNCHANGED <<bexc, braised>>
    /\ UNCHANGED <<bfn, inputs, bi, bguess, notBatch>>

\* The wrapper's "except:" block and its return; an exception the clause does
\* not take goes on to the job.
WrapperExcept ==
    /\ bpc = "except"
    /\ IF Catches(bexc)
       THEN /\ Collect(except_result(bfn, inputs[bi]))
            /\ bexc' = "none"
       ELSE /\ bpc' = "aborted"
            /\ UNCHANGED <<bexc, results>>
    /\ UNCHANGED <<bfn, inputs, bi, bguess, braised, gvars, notBatch>>

\* The job hands the collected lists back.
BatchDone ==
    /\ bpc = "done"
    /\ bpc' = "idle"
    /\ bfn' = "none"
    /\ inputs' = <<>>
    /\ bi' = 0
    /\ bguess' = Unset
    /\ braised' = {}
    /\ results' = <<>>
    /\ UNCHANGED <<bexc, gvars, notBatch>>

BatchNext ==
    \/ BatchStart \/ WrapperEnter
    \/ FlashTry \/ PhaseTry \/ PointGuess \/ PointSolve
    \/ WrapperExcept \/ BatchDone

(***************************************************************************)
(* Claims about a batch (checked under SpecBatch).                         *)
(***************************************************************************)
\* C4: a point whose calculation raised inside _phase_xiT_wrapper,
\* _phase_yiT_wrapper or _flash_wrapper comes back as NaN pressure (NaN
\* compositions for flash), a NaN vector of the point's length, flag 3 for both
\* phases and a NaN residual; the exception never reaches the job, and when the
\* job is done every point of the batch has its result.
C4_FailedPointGivesNaN ==
    /\ bpc # "aborted"
    /\ \A i \in 1..Len(results) :
        i \in braised => results[i] = except_result(bfn, inputs[i])
    /\ bpc = "done" => Len(results) = Len(inputs)

\* A point in the middle of a batch raised, and the batch was finished.
C4_Witness ==
    /\ bpc = "done"
    /\ Len(inputs) = MaxPoints
    /\ 1 \in braised
    /\ results[1].flagv = NO_FLUID
    /\ MaxPoints \notin braised

\* C5: calc_xT_phase and calc_yT_phase start a point from a composition
\* computed from that point's own arguments; nothing written to yi_global or
\* xi_global while an earlier point was solved is read.
C5_StartsFromOwnArguments ==
    bpc = "solve" => bguess = SetTo(OwnGuess(bfn, inputs[bi]))

RECURSIVE SeqSum(_)
SeqSum(v) == IF Len(v) = 0 THEN 0 ELSE Head(v) + SeqSum(Tail(v))

\* The entries sum to one and there is one per component of the EOS.
WellFormed(z) == Len(z) = number_of_components /\ SeqSum(z) = One

\* C19: phase_xiT and phase_yiT reject a composition set whose entries do not
\* sum to 1, or whose length differs from the EOS component count, before any
\* point is handed to the job: every element of a dispatched batch is well
\* formed.
C19_MalformedNeverDispatched ==
    (bfn \in {"_phase_xiT_wrapper", "_phase_yiT_wrapper"} /\ bpc # "idle") =>
        \A k \in 1..Len(inputs) : WellFormed(inputs[k].z)

\* A vector of mole numbers that stands for mole fractions: no NaN, no
\* negative entry, a positive sum to divide by.
ValidComposition(c) ==
    /\ ~c.nan
    /\ \A i \in 1..Len(c.v) : c.v[i] >= 0
    /\ SeqSum(c.v) > 0

\* C23: on every way out of solve_yi_xiT and solve_xi_yiT past the loop
\* (convergence, the iteration budget used up, the scan used with or without
\* a valid candidate) a composition is returned, and it has non-negative
\* entries that sum to 1.
C23_EveryExitReturnsComposition ==
    (ipc \in {"returned", "raised"} /\ iret.at = "after") =>
        /\ iret.outcome = "return"
        /\ ValidComposition(icomp)

\* C29: every result of _phase_xiT_wrapper or _phase_yiT_wrapper with a NaN
\* pressure has flag 3 for both phases and a NaN residual, a pure-component
\* point whose saturation pressure was not found included.
C29_NaNPressureMeansNoFluid ==
    (bfn \in {"_phase_xiT_wrapper", "_phase_yiT_wrapper"}) =>
        \A i \in 1..Len(results) :
            results[i].P = NaN =>
                /\ results[i].flagv = NO_FLUID
                /\ results[i].flagl = NO_FLUID
                /\ results[i].obj = NaN

(***************************************************************************)
(* PvsRho: the density grid, its re-gridding in specific volume, and the   *)
(* pressure curve.  Densities, specific volumes and vspacemax are exact    *)
(* fractions [n, d] with d > 0.                                            *)
(***************************************************************************)
\* The largest maximum density, in units of the smallest rhoinc.
MaxRho == 6

\* n / d in lowest terms
Frac(n, d) == [n |-> n \div Gcd(n, d), d |-> d \div Gcd(n, d)]
FInv(a) == Frac(a.d, a.n)
FAdd(a, b) == Frac(a.n * b.d + b.n * a.d, a.d * b.d)
FSub(a, b) == Frac(a.n * b.d - b.n * a.d, a.d * b.d)
FLess(a, b) == a.n * b.d < b.n * a.d

Reverse(s) == [i \in 1..Len(s) |-> s[Len(s) + 1 - i]]

RECURSIVE Arange(_, _, _)
\* np.arange(start, stop, step) for a positive step
Arange(start, stop, step) ==
    IF FLess(start, stop)
    THEN <<start>> \o Arange(FAdd(start, step), stop, step)
    ELSE <<>>

\* The arguments PvsRho works from: eos.density_max, minrhofrac applied to it,
\* rhoinc, vspacemax, and the shape of the pressures eos.P answers with.
VspaceMaxVals == {Frac(n, d) : n \in 1..2, d \in {1, 4, 12, 30}}
PvsRhoInputs ==
    [maxrho : 1..MaxRho, minrho : 1..2, rhoinc : 1..2,
     vspacemax : VspaceMaxVals, shape : {"rising", "falling"}]

\* eos.P on an array of densities: one pressure for each density.
eosP(rholist, shape) ==
    [i \in 1..Len(rholist) |-> IF shape = "rising" THEN i ELSE Len(rholist) - i]

\* vspace = (1.0 / rholist[:-1]) - (1.0 / rholist[1:])
Vspace(rholist) ==
    [i \in 1..(Len(rholist) - 1) |-> FSub(FInv(rholist[i]), FInv(rholist[i + 1]))]

\* np.where(vspace > vspacemax)[0][-1], as a position counted from 1
VspaceSwitch(vspace, vspacemax) ==
    SetMax({i \in 1..Len(vspace) : FLess(vspacemax, vspace[i])})

\* rholist[vspaceswitch + 2:] taken one element too early
KeptPart_FromSwitch(rholist, sw) == SubSeq(rholist, sw + 1, Len(rholist))
\* rholist[vspaceswitch + 2:]
KeptPart(rholist, sw) == SubSeq(rholist, sw + 2, Len(rholist))

\* rholist_2 = 1.0 / np.arange(1.0 / rholist[vspaceswitch + 1], 1.0 / minrho,
\*                             vspacemax)[::-1]
Regridded(rholist, sw, minrho, vspacemax) ==
    LET vol == Reverse(Arange(FInv(rholist[sw + 1]), FInv(Frac(minrho, 1)), vspacemax))
    IN [i \in 1..Len(vol) |-> FInv(vol[i])]

NoCall == [outcome |-> "none"]
QRaise(exc) == [outcome |-> exc]

PvsRho(a) ==
    LET grid == Arange(Frac(a.minrho, 1), Frac(a.maxrho, 1), Frac(a.rhoinc, 1))
        vspace == Vspace(grid)
        regrid == \E i \in 1..Len(vspace) : FLess(a.vspacemax, vspace[i])
        sw == VspaceSwitch(vspace, a.vspacemax)
        rholist == IF regrid
                   THEN Regridded(grid, sw, a.minrho, a.vspacemax) \o KeptPart(grid, sw)
                   ELSE grid
        Plist == eosP(rholist, a.shape)
        flipped == Reverse(rholist)
    IN
    \* np.amax of an empty array raises
    IF Len(grid) < 2 THEN QRaise("ValueError")
    ELSE [outcome |-> "return",
          vlist |-> [i \in 1..Len(flipped) |-> FInv(flipped[i])],
          Plist |-> Reverse(Plist),
          regridded |-> regrid,
          kept |-> IF regrid THEN Len(KeptPart(grid, sw)) ELSE Len(grid)]

CurveInit ==
    /\ qpc = "idle"
    /\ qfn = "none"
    /\ qin = NoCall
    /\ qout = NoCall

CallPvsRho ==
    /\ qpc = "idle"
    /\ \E a \in PvsRhoInputs :
        /\ qin' = a
        /\ qout' = PvsRho(a)
        /\ qpc' = IF PvsRho(a).outcome = "return" THEN "returned" ELSE "raised"
    /\ qfn' = "PvsRho"
    /\ UNCHANGED notCurve

(***************************************************************************)
(* calc_Psat.  Mole fractions are in percent.  The pressure curve is the   *)
(* Plist that PvsRho returned; the spline fit and the bounded minimiser    *)
(* are external.                                                           *)
(***************************************************************************)
\* The longest pressure curve and the largest pressure on it.
MaxCurve == 4
MaxP == 2

PsatComps == {<<0, 0>>, <<100, 0>>, <<0, 100>>, <<5, 95>>, <<50, 50>>, <<40, 30, 30>>}
Curves == UNION {[1..n -> 0..MaxP] : n \in 3..MaxCurve}

\* minimize_scalar and the roots of the shifted spline: an exception, or the
\* minimiser's x and the number of roots found.
MinimiserResponses == [ok : BOOLEAN, nroots : 0..3]

PsatInputs ==
    [xi : PsatComps, Plist : Curves, curveOk : BOOLEAN, min : MinimiserResponses]

\* np.count_nonzero(xi) counts every entry that is not zero...
count_nonzero_AboveTenth(xi) == Cardinality({i \in 1..Len(xi) : xi[i] > 10})
count_nonzero(xi) == Cardinality({i \in 1..Len(xi) : xi[i] # 0})
\* ... and np.count_nonzero(xi > 0.1) those above 10 %.
count_above_tenth(xi) == Cardinality({i \in 1..Len(xi) : xi[i] > 10})

\* np.argwhere(np.diff(Plist) > 0): the positions, counted from 0, of the
\* pressures that the next pressure exceeds.
ArgwhereIncrease(Plist) == {i \in 0..(Len(Plist) - 2) : Plist[i + 2] > Plist[i + 1]}

\* tmp.any(): tmp holds positions, and a position of 0 is falsy.
tmp_any(tmp) == \E i \in tmp : i # 0

SetMin(S) == CHOOSE x \in S : \A y \in S : x <= y
\* np.argmax: the first position of the maximum
Argmax(v) == SetMin({i \in 0..(Len(v) - 1) : \A j \in 1..Len(v) : v[j] <= v[i + 1]})

PsatReturn(Psat, calls, warned, lo, hi) ==
    [outcome |-> "return", Psat |-> Psat, calls |-> calls, warned |-> warned,
     Pminsearch |-> lo, Pmaxsearch |-> hi]
PsatRaise(exc, calls) ==
    [outcome |-> exc, Psat |-> NaN, calls |-> calls, warned |-> FALSE,
     Pminsearch |-> 0, Pmaxsearch |-> 0]

\* The branch under "if not tmp.any()" with a number for Psat
NaNBranch_Float(calls) == PsatReturn(SomeFloat, calls, TRUE, 0, 0)
\* The branch under "if not tmp.any()": Psat = np.nan; roots = [1.0, 1.0, 1.0]
NaNBranch(calls) == PsatReturn(NaN, calls, TRUE, 0, 0)

calc_Psat(a) ==
    LET tmp == ArgwhereIncrease(a.Plist)
        Pmin1 == SetMin(tmp)
        Pmax1 == Argmax(SubSeq(a.Plist, Pmin1 + 1, Len(a.Plist))) + Pmin1
        Pmaxsearch == a.Plist[Pmax1 + 1]
        \* max(Plist[-1], np.amin(Plist[Pmin1:Pmax1]))
        low == SetMin({a.Plist[i + 1] : i \in Pmin1..(Pmax1 - 1)})
        Pminsearch == IF a.Plist[Len(a.Plist)] > low THEN a.Plist[Len(a.Plist)] ELSE low
    IN
    IF count_nonzero(a.xi) # 1 THEN
        \* both branches of the inner test raise ValueError
        PsatRaise("ValueError", <<>>)
    ELSE IF ~a.curveOk THEN
        PsatRaise("Exception", <<"PvsRho", "PvsV_spline">>)
    ELSE IF ~tmp_any(tmp) THEN
        NaNBranch(<<"PvsRho", "PvsV_spline">>)
    ELSE IF ~a.min.ok THEN
        PsatRaise("Exception", <<"PvsRho", "PvsV_spline", "minimize_scalar">>)
    ELSE IF a.min.nroots < 3 THEN
        \* roots[2] of fewer than three roots
        PsatRaise("IndexError", <<"PvsRho", "PvsV_spline", "minimize_scalar">>)
    ELSE
        PsatReturn(SomeFloat, <<"PvsRho", "PvsV_spline", "minimize_scalar">>, FALSE,
                   Pminsearch, Pmaxsearch)

CallPsat ==
    /\ qpc = "idle"
    /\ \E a \in PsatInputs :
        /\ qin' = a
        /\ qout' = calc_Psat(a)
        /\ qpc' = IF calc_Psat(a).outcome = "return" THEN "returned" ELSE "raised"
    /\ qfn' = "calc_Psat"
    /\ UNCHANGED notCurve

(***************************************************************************)
(* calc_phiv and calc_phil.  A coefficient vector is kept by its kind       *)
(* ("ones", "nan", "float") and its length.  The EOS chemical potential is *)
(* external: elementwise arithmetic, so NaN for a NaN density, and a       *)
(* finite vector or an exception otherwise.                                *)
(***************************************************************************)
PhiComps == {<<1, 1>>, <<1, 2, 1>>}

\* What calc_rhov / calc_rhol hand back: an exception, or (density, flag) with
\* NaN beside flags 3 and 4 and a number beside the others.
RhoResponses ==
    {[ok |-> FALSE, rho |-> NaN, flag |-> NO_FLUID]}
        \cup {[ok |-> TRUE, rho |-> NaN, flag |-> f] : f \in {NO_FLUID, IDEAL_GAS_ASSUMED}}
        \cup {[ok |-> TRUE, rho |-> SomeFloat, flag |-> f] :
                 f \in {VAPOR, LIQUID, CRITICAL_FLUID}}

PhiInputs == [zi : PhiComps, rho : RhoResponses, eosOk : BOOLEAN]

PhiVec(kind, n) == [kind |-> kind, n |-> n]

\* np.exp(eos.chemicalpotential(P, np.array([rho]), zi, T))
ExpChemicalPotential(rho, zi) == PhiVec(IF rho = NaN THEN "nan" ELSE "float", Len(zi))

\* The flag-4 branch, sent to the EOS like every other flag
IdealGasPhi_FromEOS(rho, zi) == ExpChemicalPotential(rho, zi)
\* The flag-4 branch: phiv = np.ones_like(yi)
IdealGasPhi(rho, zi) == PhiVec("ones", Len(zi))

PhiReturn(phi, r, calls) ==
    [outcome |-> "return", phi |-> phi, rho |-> r.rho, flag |-> r.flag, calls |-> calls]
PhiRaise(calls) ==
    [outcome |-> "Exception", phi |-> PhiVec("nan", 0), rho |-> NaN,
     flag |-> NO_FLUID, calls |-> calls]

calc_phiv(a) ==
    IF ~a.rho.ok THEN PhiRaise(<<"calc_rhov">>)
    ELSE IF a.rho.flag = IDEAL_GAS_ASSUMED THEN
        PhiReturn(IdealGasPhi(a.rho.rho, a.zi), a.rho, <<"calc_rhov">>)
    ELSE IF a.rho.rho # NaN /\ ~a.eosOk THEN
        PhiRaise(<<"calc_rhov", "chemicalpotential">>)
    ELSE PhiReturn(ExpChemicalPotential(a.rho.rho, a.zi), a.rho,
                   <<"calc_rhov", "chemicalpotential">>)

calc_phil(a) ==
    IF ~a.rho.ok THEN PhiRaise(<<"calc_rhol">>)
    ELSE IF a.rho.rho # NaN /\ ~a.eosOk THEN
        PhiRaise(<<"calc_rhol", "chemicalpotential">>)
    ELSE PhiReturn(ExpChemicalPotential(a.rho.rho, a.zi), a.rho,
                   <<"calc_rhol", "chemicalpotential">>)

CallPhiv ==
    /\ qpc = "idle"
    /\ \E a \in PhiInputs :
        /\ qin' = a
        /\ qout' = calc_phiv(a)
        /\ qpc' = IF calc_phiv(a).outcome = "return" THEN "returned" ELSE "raised"
    /\ qfn' = "calc_phiv"
    /\ UNCHANGED notCurve

CallPhil ==
    /\ qpc = "idle"
    /\ \E a \in PhiInputs :
        /\ qin' = a
        /\ qout' = calc_phil(a)
        /\ qpc' = IF calc_phil(a).outcome = "return" THEN "returned" ELSE "raised"
    /\ qfn' = "calc_phil"
    /\ UNCHANGED notCurve

\* The caller takes the result or the exception.
CurveDone ==
    /\ qpc \in {"returned", "raised"}
    /\ qpc' = "idle"
    /\ qfn' = "none"
    /\ qin' = NoCall
    /\ qout' = NoCall
    /\ UNCHANGED notCurve

CurveNext ==
    \/ CallPvsRho
    \/ CallPsat
    \/ CallPhiv \/ CallPhil
    \/ CurveDone

(***************************************************************************)
(* Claims about the curve routines (checked under SpecCurve).              *)
(***************************************************************************)
StrictlyIncreasing(v) == \A i \in 1..(Len(v) - 1) : FLess(v[i], v[i + 1])

\* C11: whenever PvsRho returns, the specific-volume array is strictly
\* increasing and as long as the pressure array, with and without the
\* re-gridding of the low-density part, the join of the two parts included.
C11_VolumesIncrease ==
    (qpc = "returned" /\ qfn = "PvsRho") =>
        /\ StrictlyIncreasing(qout.vlist)
        /\ Len(qout.vlist) = Len(qout.Plist)

\* PvsRho re-gridded the low densities and kept at least two grid points.
C11_Witness ==
    /\ qpc = "returned" /\ qfn = "PvsRho"
    /\ qout.regridded
    /\ qout.kept >= 2
    /\ Len(qout.vlist) > qout.kept + 1

InSeq(x, seq) == \E i \in 1..Len(seq) : seq[i] = x
QCalled(fn) == qpc \in {"returned", "raised"} /\ qfn = fn

\* C12: when no pressure on the curve is followed by a larger one, calc_Psat
\* never calls the equal-area minimiser, and what it returns is NaN as the
\* saturation pressure, with the warning logged.
C12_FlatCurveGivesNaN ==
    (QCalled("calc_Psat") /\ count_nonzero(qin.xi) = 1
        /\ \A i \in 1..(Len(qin.Plist) - 1) : qin.Plist[i + 1] <= qin.Plist[i]) =>
        /\ ~InSeq("minimize_scalar", qout.calls)
        /\ qout.outcome = "return" => (qout.Psat = NaN /\ qout.warned)

\* A strictly falling curve went through calc_Psat and came back.
C12_Witness ==
    /\ qpc = "returned" /\ qfn = "calc_Psat"
    /\ \A i \in 1..(Len(qin.Plist) - 1) : qin.Plist[i + 1] < qin.Plist[i]
    /\ qout.Psat = NaN

\* C13: for every composition that does not have exactly one nonzero entry,
\* calc_Psat raises ValueError before PvsRho, the spline or the EOS is called.
C13_OnlyPureComponents ==
    (QCalled("calc_Psat")
        /\ Cardinality({i \in 1..Len(qin.xi) : qin.xi[i] # 0}) # 1) =>
        /\ qout.outcome = "ValueError"
        /\ qout.calls = <<>>

\* A mixture with one entry above 10 % and a small one was turned away.
C13_Witness ==
    /\ qpc = "raised" /\ qfn = "calc_Psat"
    /\ qin.xi = <<5, 95>>
    /\ qout.outcome = "ValueError"

C28_NaNOnlyWithoutIncrease ==
    (QCalled("calc_Psat") /\ qin.curveOk /\ count_nonzero(qin.xi) = 1
        /\ \E i \in 1..(Len(qin.Plist) - 1) : qin.Plist[i + 1] > qin.Plist[i]) =>
        /\ InSeq("minimize_scalar", qout.calls)
        /\ ~(qout.outcome = "return" /\ qout.Psat = NaN)

(***************************************************************************)
(* The outer pressure solve of calc_xT_phase and calc_yT_phase, from the   *)
(* statement after the starting composition to the return.  Pressures are  *)
(* positions on a grid; the objective solve_P_xiT / solve_P_yiT has one     *)
(* signed value at each.  scipy's root, minimize and brentq are external:   *)
(* minimize hands back a point where the function it was given is smallest *)
(* within its bounds, brentq wants a sign change and hands back a point of  *)
(* its interval, root hands back any point.                                *)
(***************************************************************************)
\* The number of grid pressures.
GridN == 3

RootMethods ==
    {"broyden1", "broyden2", "anderson", "hybr", "lm", "linearmixing",
     "diagbroyden", "excitingmixing", "krylov", "df-sane"}
HybrMethods == {"hybr_broyden1", "hybr_broyden2"}
BoundedMethods == {"TNC", "L-BFGS-B", "SLSQP"}
Methods == RootMethods \cup HybrMethods \cup BoundedMethods \cup {"brent", "other"}

Objectives == [1..GridN -> {-1, 0, 1}]

Unbracketed == [bound |-> FALSE, lo |-> 0, hi |-> 0]
Bracket(lo, hi) == [bound |-> TRUE, lo |-> lo, hi |-> hi]
\* What calc_Prange_xi can return for this objective: two grid pressures with
\* objective values of opposite sign.
Brackets(obj) ==
    {Bracket(lo, hi) : lo \in 1..GridN, hi \in 1..GridN} \cap
    {b \in [bound : {TRUE}, lo : 1..GridN, hi : 1..GridN] :
        b.lo < b.hi /\ obj[b.lo] * obj[b.hi] < 0}

NotHanded == [given |-> FALSE, f |-> <<>>, lo |-> 0, hi |-> 0]
Handed(f, r) == [given |-> TRUE, f |-> f, lo |-> r.lo, hi |-> r.hi]

\* The function passed to minimize: solve_P_xiT (solve_P_yiT) itself
ObjectiveForMinimizer(obj) == obj

\* minimize(f, P, bounds=[(lo, hi)]): a point of the bounds where f is smallest
Minimise(f, lo, hi) == {p \in lo..hi : \A q \in lo..hi : f[p] <= f[q]}

NoOuter == [outcome |-> "none", P |-> 0, obj |-> 0]
OuterRaise(exc) == [NoOuter EXCEPT !.outcome = exc]

OuterInit ==
    /\ opc = "idle"
    /\ ofn = "none"
    /\ ometh = "none"
    /\ oobj = <<>>
    /\ oP = 0
    /\ oPrange = Unbracketed
    /\ ocalls = <<>>
    /\ ohand = NotHanded
    /\ oret = NoOuter

\* The point reaches the statement after "yi = yi_global" / "xi = xi_global"
\* with P estimated from the saturation pressures (or Pguess).
OuterStart(fn) ==
    /\ opc = "idle"
    /\ ofn' = fn
    /\ ometh' \in Methods
    /\ oobj' \in Objectives
    /\ oP' \in 1..GridN
    /\ oPrange' = Unbracketed
    /\ ocalls' = <<>>
    /\ ohand' = NotHanded
    /\ oret' = NoOuter
    /\ opc' = "bracket"
    /\ UNCHANGED <<gvars, notOuter>>

XTStart == OuterStart("calc_xT_phase")
YTStart == OuterStart("calc_yT_phase")

\* calc_xT_phase: "Prange, Pguess = calc_Prange_xi(...)", "P = Pguess".
\* calc_yT_phase: the same three lines are comments; nothing is executed.
OuterBracket ==
    /\ opc = "bracket"
    /\ IF ofn = "calc_xT_phase" THEN
          /\ ocalls' = Append(ocalls, "calc_Prange_xi")
          /\ \E g \in PrWrites :
                /\ IF g.set THEN yi_global' = g ELSE UNCHANGED yi_global
                /\ \/ /\ opc' = "raised"
                      /\ oret' = OuterRaise("Exception")
                      /\ UNCHANGED <<oP, oPrange>>
                   \/ /\ g.set
                      /\ \E b \in Brackets(oobj), guess \in 1..GridN :
                            /\ b.lo <= guess /\ guess <= b.hi
                            /\ oPrange' = b
                            /\ oP' = guess
                      /\ opc' = "solve"
                      /\ UNCHANGED oret
       ELSE
          /\ opc' = "solve"
          /\ UNCHANGED <<oP, oPrange, ocalls, oret, yi_global>>
    /\ UNCHANGED <<ofn, ometh, oobj, ohand, xi_global, notOuter>>

\* The if / elif chain on meth, and "if meth != 'brent': P = Pfinal.x".
OuterSolve ==
    /\ opc = "solve"
    /\ IF ometh \in RootMethods \cup HybrMethods THEN
          \* root(solve_P_xiT, P, ...), twice for the hybr_ methods
          /\ ocalls' = ocalls \o (IF ometh \in HybrMethods
                                  THEN <<"root", "root">> ELSE <<"root">>)
          /\ \E ok \in BOOLEAN, p \in 1..GridN :
                IF ok THEN opc' = "final" /\ oP' = p /\ UNCHANGED oret
                ELSE opc' = "raised" /\ oret' = OuterRaise("Exception") /\ UNCHANGED oP
          /\ UNCHANGED ohand
       ELSE IF ometh \in BoundedMethods \cup {"brent"} /\ ~oPrange.bound THEN
          \* Prange is read and no statement has bound it
          /\ opc' = "raised"
          /\ oret' = OuterRaise("NameError")
          /\ UNCHANGED <<oP, ocalls, ohand>>
       ELSE IF ometh \in BoundedMethods THEN
          \* len(Prange) == 2: minimize(solve_P_xiT, P, bounds=[tuple(Prange)])
          /\ ocalls' = Append(ocalls, "minimize")
          /\ ohand' = Handed(ObjectiveForMinimizer(oobj), oPrange)
          /\ \E ok \in BOOLEAN,
                p \in Minimise(ObjectiveForMinimizer(oobj), oPrange.lo, oPrange.hi) :
                IF ok THEN opc' = "final" /\ oP' = p /\ UNCHANGED oret
                ELSE opc' = "raised" /\ oret' = OuterRaise("Exception") /\ UNCHANGED oP
       ELSE IF ometh = "brent" THEN
          \* brentq(solve_P_xiT, Prange[0], Prange[1], ...)
          /\ ocalls' = Append(ocalls, "brentq")
          /\ ohand' = Handed(oobj, oPrange)
          /\ \E ok \in BOOLEAN, p \in oPrange.lo..oPrange.hi :
                IF ok /\ oobj[oPrange.lo] * oobj[oPrange.hi] <= 0
                THEN opc' = "final" /\ oP' = p /\ UNCHANGED oret
                ELSE opc' = "raised" /\ oret' = OuterRaise("Exception") /\ UNCHANGED oP
       ELSE
          \* no branch takes meth: Pfinal.x is read and Pfinal was never bound
          /\ opc' = "raised"
          /\ oret' = OuterRaise("UnboundLocalError")
          /\ UNCHANGED <<oP, ocalls, ohand>>
    /\ UNCHANGED <<ofn, ometh, oobj, oPrange, gvars, notOuter>>

\* The last statements: calc_phil (calc_phiv), the tightened tol, the inner
\* solve at the final P, which leaves its composition in the module-level
\* name, the objective at P, and the return.
OuterFinal ==
    /\ opc = "final"
    /\ \E g \in PrWrites :
        /\ IF ~g.set THEN UNCHANGED gvars
           ELSE IF ofn = "calc_xT_phase"
           THEN yi_global' = g /\ UNCHANGED xi_global
           ELSE xi_global' = g /\ UNCHANGED yi_global
        /\ IF g.set
           THEN /\ opc' = "returned"
                /\ oret' = [outcome |-> "return", P |-> oP, obj |-> oobj[oP]]
           ELSE /\ opc' = "raised"
                /\ oret' = OuterRaise("Exception")
    /\ UNCHANGED <<ofn, ometh, oobj, oP, oPrange, ocalls, ohand, notOuter>>

\* The caller takes the result or the exception.
OuterDone ==
    /\ opc \in {"returned", "raised"}
    /\ opc' = "idle"
    /\ ofn' = "none"
    /\ ometh' = "none"
    /\ oobj' = <<>>
    /\ oP' = 0
    /\ oPrange' = Unbracketed
    /\ ocalls' = <<>>
    /\ ohand' = NotHanded
    /\ oret' = NoOuter
    /\ UNCHANGED <<gvars, notOuter>>

OuterNext ==
    \/ XTStart \/ YTStart
    \/ OuterBracket \/ OuterSolve \/ OuterFinal
    \/ OuterDone

(***************************************************************************)
(* Claims about the outer solve (checked under SpecOuter).                 *)
(***************************************************************************)
\* C17: in calc_xT_phase and in calc_yT_phase every point goes through the
\* bracket search before the outer solver is reached, so that brent, TNC,
\* L-BFGS-B and SLSQP are given the bracket the search produced.
C17_BracketBeforeSolver ==
    (opc \in {"solve", "final"}) =>
        /\ Len(ocalls) > 0
        /\ ocalls[1] \in {"calc_Prange_xi", "calc_Prange_yi"}
        /\ oPrange.bound

\* C18: what TNC, L-BFGS-B and SLSQP are handed is never negative, and the
\* pressure they settle on is one where the mass-balance objective is closest
\* to zero within the bounds.
C18_MinimizerGetsSquare ==
    (opc = "final" /\ ometh \in BoundedMethods) =>
        /\ \A i \in 1..GridN : ohand.f[i] >= 0
        /\ \A q \in ohand.lo..ohand.hi : Abs(oobj[oP]) <= Abs(oobj[q])

(***************************************************************************)
(* parameter_fitting/fit_funcs.py.  A dictionary is a function from its    *)
(* keys.  A key is the sequence of the pieces of its string, so that       *)
(* "epsilon_bounds" is <<"epsilon", "_bounds">>: the substring test and    *)
(* str.replace are computed on the pieces.                                 *)
(***************************************************************************)
\* The largest number of parameters being fit.
MaxFit == 2

\* [0, 1e+4]
DefaultUpper == 10000
DefaultBounds == <<0, DefaultUpper>>

ParamNames == {<<"epsilon">>, <<"sigma">>, <<"l_r">>}
BoundsKey(p) == Append(p, "_bounds")
K_fit_bead == <<"fit_bead">>
K_fit_params == <<"fit_params">>
OptKeys ==
    {K_fit_bead, K_fit_params, <<"beadparams0">>, <<"bounds">>}
        \cup {BoundsKey(p) : p \in ParamNames}

\* A value of the dictionary: a string, a list of parameter names, or a
\* [min, max] pair.
StrVal == [kind |-> "str", names |-> <<>>, pair |-> <<>>]
NamesVal(ns) == [kind |-> "names", names |-> ns, pair |-> <<>>]
PairVal(pr) == [kind |-> "pair", names |-> <<>>, pair |-> pr]

GivenPairs == {<<1, 2>>, <<3, 4>>}
\* Lists of distinct parameter names.
FitParamLists ==
    {ns \in UNION {[1..k -> ParamNames] : k \in 0..MaxFit} :
        \A i, j \in 1..Len(ns) : i # j => ns[i] # ns[j]}

OptValues(k) ==
    IF k = K_fit_params THEN {NamesVal(ns) : ns \in FitParamLists}
    ELSE IF k \in {K_fit_bead, <<"beadparams0">>} THEN {StrVal}
    ELSE {PairVal(pr) : pr \in GivenPairs}
\* The dictionaries with exactly the keys D.
RECURSIVE DictsOver(_)
DictsOver(D) ==
    IF D = {} THEN {[k \in {} |-> StrVal]}
    ELSE LET key == CHOOSE k \in D : TRUE
         IN {[k \in D |-> IF k = key THEN v ELSE d[k]] :
                d \in DictsOver(D \ {key}), v \in OptValues(key)}
OptParams == UNION {DictsOver(D) : D \in SUBSET OptKeys}

\* "bounds" in key2
ContainsBounds(key) == \E i \in 1..Len(key) : key[i] \in {"bounds", "_bounds"}
IsNotBoundsPiece(piece) == piece # "_bounds"
\* key2 with nothing replaced
StripBounds_Unchanged(key) == key
\* key2.replace("_bounds", "")
StripBounds(key) == SelectSeq(key, IsNotBoundsPiece)

\* list.index: the first position of x
Index(ns, x) == CHOOSE i \in 1..Len(ns) : ns[i] = x /\ \A j \in 1..(i - 1) : ns[j] # x
IsIn(ns, x) == \E i \in 1..Len(ns) : ns[i] = x

\* The loop over opt_params.items(), keys still to visit in todo.
RECURSIVE ConsolidateLoop(_, _, _, _)
ConsolidateLoop(opt_params, todo, bounds, copied) ==
    IF todo = {} THEN [bounds |-> bounds, copied |-> copied]
    ELSE LET key2 == CHOOSE k \in todo : TRUE
             tmp == StripBounds(key2)
             fp == opt_params[K_fit_params].names
         IN IF ContainsBounds(key2) THEN
                IF IsIn(fp, tmp) THEN
                    ConsolidateLoop(opt_params, todo \ {key2},
                        [bounds EXCEPT ![Index(fp, tmp)] = opt_params[key2].pair], copied)
                ELSE ConsolidateLoop(opt_params, todo \ {key2}, bounds, copied)
            ELSE ConsolidateLoop(opt_params, todo \ {key2}, bounds, copied \cup {key2})

NoFit == [outcome |-> "none"]
FitRaise(exc) == [outcome |-> exc]

consolidate_bounds(opt_params) ==
    IF K_fit_bead \notin DOMAIN opt_params THEN FitRaise("ValueError")
    ELSE IF K_fit_params \notin DOMAIN opt_params THEN FitRaise("ValueError")
    ELSE LET n == Len(opt_params[K_fit_params].names)
             r == ConsolidateLoop(opt_params, DOMAIN opt_params,
                                  [x \in 1..n |-> DefaultBounds], {})
         IN [outcome |-> "return", bounds |-> r.bounds,
             rest |-> [k \in r.copied |-> opt_params[k]]]

FitInit ==
    /\ fpc = "idle"
    /\ ffn = "none"
    /\ fin = NoFit
    /\ fout = NoFit

CallConsolidateBounds ==
    /\ fpc = "idle"
    /\ \E a \in OptParams :
        /\ fin' = a
        /\ fout' = consolidate_bounds(a)
        /\ fpc' = IF consolidate_bounds(a).outcome = "return" THEN "returned" ELSE "raised"
    /\ ffn' = "consolidate_bounds"
    /\ UNCHANGED notFit

(***************************************************************************)
(* obj_function_form.  Reference data are small positive integers, the     *)
(* squared relative deviations exact fractions.                            *)
(***************************************************************************)
\* The largest number of data points.
MaxData == 2
nan_number == 1000
\* nan_ratio = 0.1, in tenths
nan_ratio_tenths == 1

DataNaN == [nan |-> TRUE, v |-> 0]
DataValues == {DataNaN} \cup {[nan |-> FALSE, v |-> x] : x \in 0..2}
Data0Values == {1, 2}
\* weights: a float, or an array of the data's length or one longer
WeightSets(n) ==
    {[scalar |-> TRUE, w |-> <<x>>] : x \in {1, 2}}
        \cup {[scalar |-> FALSE, w |-> ws] : ws \in [1..n -> {1, 2}] \cup [1..(n + 1) -> {1}]}
ObjMethods == {"average-squared-deviation", "sum-squared-deviation", "other"}
\* One data set evaluated under two choices of weights.
ObjInputs ==
    UNION {[data_test : [1..n -> DataValues],
            data0 : [1..n -> Data0Values] \cup [1..(n + 1) -> {1}],
            weights : WeightSets(n), weights2 : WeightSets(n),
            method : ObjMethods] : n \in 1..MaxData}

ObjNaN == [nan |-> TRUE, f |-> Frac(0, 1)]
ObjValue(f) == [nan |-> FALSE, f |-> f]
ObjReturn(v) == [outcome |-> "return", value |-> v]

\* ((data_test[i] - data0[i]) / data0[i]) ** 2
SqDev(t, d0) == Frac((t.v - d0) * (t.v - d0), d0 * d0)

\* data_tmp ** 2: the squared deviations of the points that are not NaN
RECURSIVE data_tmp_sq(_, _, _)
data_tmp_sq(data_test, data0, i) ==
    IF i > Len(data_test) THEN <<>>
    ELSE IF data_test[i].nan THEN data_tmp_sq(data_test, data0, i + 1)
    ELSE <<SqDev(data_test[i], data0[i])>> \o data_tmp_sq(data_test, data0, i + 1)

RECURSIVE FSum(_)
FSum(fs) == IF Len(fs) = 0 THEN Frac(0, 1) ELSE FAdd(Head(fs), FSum(Tail(fs)))

obj_function_form(data_test, data0, weights, method) ==
    IF Len(data0) # Len(data_test) THEN FitRaise("ValueError")
    ELSE IF Len(weights.w) > 1 /\ Len(weights.w) # Len(data_test) THEN FitRaise("ValueError")
    ELSE LET tmp == data_tmp_sq(data_test, data0, 1)
             n == Len(data_test)
             k == Len(tmp)
             bound == k = 0 \/ method # "other"
             first == IF k = 0 THEN ObjNaN
                      ELSE IF method = "average-squared-deviation"
                           THEN ObjValue(Frac(FSum(tmp).n, FSum(tmp).d * k))
                      ELSE ObjValue(FSum(tmp))
             penalised == IF first.nan THEN ObjNaN
                          ELSE ObjValue(FAdd(first.f, Frac((n - k) * nan_number, 1)))
         IN IF ~bound THEN FitRaise("UnboundLocalError")
            ELSE IF n # k /\ 10 * (n - k) > nan_ratio_tenths * n THEN ObjReturn(penalised)
            ELSE ObjReturn(first)

CallObjFunctionForm ==
    /\ fpc = "idle"
    /\ \E a \in ObjInputs :
        LET r1 == obj_function_form(a.data_test, a.data0, a.weights, a.method)
            r2 == obj_function_form(a.data_test, a.data0, a.weights2, a.method)
        IN /\ fin' = a
           /\ fout' = [first |-> r1, second |-> r2]
           /\ fpc' = IF r1.outcome = "return" /\ r2.outcome = "return"
                     THEN "returned" ELSE "raised"
    /\ ffn' = "obj_function_form"
    /\ UNCHANGED notFit

(***************************************************************************)
(* compute_obj.  A data set is what its update_parameters and objective    *)
(* do when called; an objective value is NaN, +infinity or a small number. *)
(***************************************************************************)
\* The largest number of experimental data sets.
MaxSets == 2

ObjNumbers == {[kind |-> "nan", v |-> 0], [kind |-> "inf", v |-> 0],
               [kind |-> "num", v |-> 0], [kind |-> "num", v |-> 1]}
Inf == [kind |-> "inf", v |-> 0]
Num(x) == [kind |-> "num", v |-> x]
DataSets ==
    {[update |-> e, objective |-> "none", value |-> Num(0)] : e \in Exceptions}
        \cup {[update |-> "none", objective |-> e, value |-> Num(0)] : e \in Exceptions}
        \cup {[update |-> "none", objective |-> "none", value |-> x] : x \in ObjNumbers}
\* The penalty (1e+3 * (param - bound)) ** 8 of each parameter: nothing
\* inside the bounds, a positive number at or beyond them.
Penalties == {0, 1}
ComputeObjInputs ==
    UNION {[beadparams : [1..m -> Penalties], nfit : 0..MaxFit,
            exp_dict : [1..k -> DataSets]] : m \in 0..MaxFit, k \in 1..MaxSets}

\* "except:" with no class named
ObjCaught_OnlyValueError(exc) == exc = "ValueError"
ObjCaught(exc) == TRUE

\* a + b of two floats
ObjAdd(a, b) ==
    IF a.kind = "nan" \/ b.kind = "nan" THEN [kind |-> "nan", v |-> 0]
    ELSE IF a.kind = "inf" \/ b.kind = "inf" THEN Inf
    ELSE Num(a.v + b.v)
RECURSIVE NpSum(_)
NpSum(xs) == IF Len(xs) = 0 THEN Num(0) ELSE ObjAdd(Head(xs), NpSum(Tail(xs)))
IsNotNaN(x) == x.kind # "nan"
NpNanSum(xs) == NpSum(SelectSeq(xs, IsNotNaN))

\* The loop over exp_dict.items() from data set i on: the values appended,
\* the calls made, and the exception that left the loop, if one did.
RECURSIVE ObjLoop(_, _, _, _)
ObjLoop(exp_dict, i, obj_function, calls) ==
    IF i > Len(exp_dict) THEN [exc |-> "none", obj_function |-> obj_function, calls |-> calls]
    ELSE LET data_obj == exp_dict[i]
             exc == IF data_obj.update # "none" THEN data_obj.update ELSE data_obj.objective
             made == IF data_obj.update # "none" THEN <<<<i, "update_parameters">>>>
                     ELSE <<<<i, "update_parameters">>, <<i, "objective">>>>
         IN IF exc = "none" THEN
                ObjLoop(exp_dict, i + 1, Append(obj_function, data_obj.value), calls \o made)
            ELSE IF ObjCaught(exc) THEN
                ObjLoop(exp_dict, i + 1, Append(obj_function, Inf), calls \o made)
            ELSE [exc |-> exc, obj_function |-> obj_function, calls |-> calls \o made]

compute_obj(a) ==
    IF Len(a.beadparams) # a.nfit THEN
        [outcome |-> "ValueError", total |-> Num(0), calls |-> <<>>]
    ELSE LET r == ObjLoop(a.exp_dict, 1, <<>>, <<>>)
             nansum == NpNanSum(r.obj_function)
             obj_total == IF nansum = Num(0) /\ NpSum(r.obj_function).kind = "nan"
                          THEN Inf ELSE nansum
             penalty == NpSum([i \in 1..Len(a.beadparams) |-> Num(a.beadparams[i])])
         IN IF r.exc # "none" THEN [outcome |-> r.exc, total |-> Num(0), calls |-> r.calls]
            ELSE [outcome |-> "return", total |-> ObjAdd(obj_total, penalty),
                  calls |-> r.calls]

CallComputeObj ==
    /\ fpc = "idle"
    /\ \E a \in ComputeObjInputs :
        /\ fin' = a
        /\ fout' = compute_obj(a)
        /\ fpc' = IF compute_obj(a).outcome = "return" THEN "returned" ELSE "raised"
    /\ ffn' = "compute_obj"
    /\ UNCHANGED notFit

\* The caller takes the result or the exception.
FitDone ==
    /\ fpc \in {"returned", "raised"}
    /\ fpc' = "idle"
    /\ ffn' = "none"
    /\ fin' = NoFit
    /\ fout' = NoFit
    /\ UNCHANGED notFit

FitNext ==
    \/ CallConsolidateBounds
    \/ CallObjFunctionForm
    \/ CallComputeObj
    \/ FitDone

FCalled(fn) == fpc # "idle" /\ ffn = fn

Counts(a, i) == ~a.data_test[i].nan /\ a.data_test[i].v # a.data0[i]

\* C22: obj_function_form applies the weights: with data_test and data0
\* fixed, two weight arrays that differ at one point that counts give
\* different objective values, and doubling a scalar weight doubles a value
\* that is neither zero nor NaN.
C22_WeightsChangeObjective ==
    (FCalled("obj_function_form") /\ fpc = "returned") =>
        /\ (/\ ~fin.weights.scalar /\ ~fin.weights2.scalar
            /\ \E i \in 1..Len(fin.data_test) :
                /\ Counts(fin, i)
                /\ fin.weights.w[i] # fin.weights2.w[i]
                /\ \A j \in 1..Len(fin.data_test) :
                    j # i => fin.weights.w[j] = fin.weights2.w[j])
            => fout.first.value # fout.second.value
        /\ (/\ fin.weights.scalar /\ fin.weights2.scalar
            /\ fin.weights2.w[1] = 2 * fin.weights.w[1]
            /\ ~fout.first.value.nan /\ fout.first.value.f.n # 0)
            => fout.second.value.f = FAdd(fout.first.value.f, fout.first.value.f)

\* Data set i raised in update_parameters or in objective.
SetRaised(a, i) == a.exp_dict[i].update # "none" \/ a.exp_dict[i].objective # "none"

\* C30: compute_obj raises ValueError, with no data set touched, when the
\* parameter vector and the fit parameters differ in length; otherwise it
\* returns whatever a data set raised, every data set is updated, a data set
\* that raised makes the total +infinity, and so does every data set
\* yielding NaN.
C30_FailedSetGivesInfinity ==
    FCalled("compute_obj") =>
        IF Len(fin.beadparams) # fin.nfit THEN
            fout.outcome = "ValueError" /\ fout.calls = <<>>
        ELSE
            /\ fout.outcome = "return"
            /\ \A i \in 1..Len(fin.exp_dict) : InSeq(<<i, "update_parameters">>, fout.calls)
            /\ (\E i \in 1..Len(fin.exp_dict) : SetRaised(fin, i)) => fout.total = Inf
            /\ (\A i \in 1..Len(fin.exp_dict) :
                    ~SetRaised(fin, i) /\ fin.exp_dict[i].value.kind = "nan")
                => fout.total = Inf

\* The first data set raised something other than ValueError and the second
\* was still evaluated.
C30_Witness ==
    /\ FCalled("compute_obj") /\ fpc = "returned"
    /\ Len(fin.exp_dict) = 2
    /\ fin.exp_dict[1].objective = "KeyboardInterrupt"
    /\ InSeq(<<2, "objective">>, fout.calls)
    /\ fout.total = Inf

(***************************************************************************)
(* A serial sweep: phase_xiT / phase_yiT build one argument tuple per      *)
(* point and the job calls the wrapper on each in turn, in this process.   *)
(* Dictionaries are objects: dict.copy() makes a new top-level dictionary  *)
(* whose values are the same objects, so there is one pressure_options and *)
(* one zi_opts however many copies refer to them.                          *)
(***************************************************************************)
\* The largest number of points in a sweep.
MaxSweep == 2
\* 1e-10, the unit tolerances are counted in
TolFloor == 1
\* 1e-6 in that unit
TolDefault == 10000

per_job_var == {"Pguess", "Pmin", "Pmax"}
Absent == [kind |-> "absent", v |-> <<>>]
ArrayOf(v) == [kind |-> "array", v |-> v]
ScalarOf(x) == [kind |-> "scalar", v |-> <<x>>]
\* What the caller may give under Pguess, Pmin or Pmax for n points: nothing,
\* one value, one value per point, or one value too many.
PerJobGiven(n) ==
    {Absent, ArrayOf(<<7>>), ArrayOf([i \in 1..n |-> 10 * i]),
     ArrayOf([i \in 1..(n + 1) |-> 10 * i])}
\* pressure_options: not given, or given without or with a 'method'.
PressureOptions ==
    {[present |-> FALSE, method |-> "unset"], [present |-> TRUE, method |-> "unset"],
     [present |-> TRUE, method |-> "brent"]}
\* zi_opts: not given, or given without a 'tol', or with one; 0 is no 'tol'.
ZiOpts ==
    {[present |-> FALSE, tol |-> 0], [present |-> TRUE, tol |-> 0],
     [present |-> TRUE, tol |-> TolFloor], [present |-> TRUE, tol |-> TolDefault]}
\* sys_dict after Tlist, xilist and mpObj are taken out; pure tells for each
\* point whether its composition has one nonzero entry.
SysDicts ==
    UNION {[n : {n}, pure : [1..n -> BOOLEAN],
            Pguess : PerJobGiven(n), Pmin : PerJobGiven(n), Pmax : PerJobGiven(n),
            pressure_options : PressureOptions, zi_opts : ZiOpts] : n \in 1..MaxSweep}

\* "if np.size(T_list) != np.size(Pguess)" and its branches
ProcessPerJob(given, n) ==
    IF given.kind = "absent" THEN Absent
    ELSE IF Len(given.v) = n THEN given
    ELSE IF Len(given.v) = 1 THEN ArrayOf([i \in 1..n |-> given.v[1]])
    ELSE [kind |-> "ValueError", v |-> <<>>]

\* opts once Pguess, Pmin, Pmax are processed
Opts(sys) ==
    [Pguess |-> ProcessPerJob(sys.Pguess, sys.n), Pmin |-> ProcessPerJob(sys.Pmin, sys.n),
     Pmax |-> ProcessPerJob(sys.Pmax, sys.n), method |-> "unset"]
OptsRaise(sys) == \E key \in per_job_var : Opts(sys)[key].kind = "ValueError"

\* opts_tmp[key] = opts_tmp[key][i]
Entry(val, i) == IF val.kind = "absent" THEN Absent ELSE ScalarOf(val.v[i])
\* opts_tmp for point i
OptsTmp(opts, i) ==
    [Pguess |-> Entry(opts.Pguess, i), Pmin |-> Entry(opts.Pmin, i),
     Pmax |-> Entry(opts.Pmax, i), method |-> opts.method]

\* The dictionary the argument tuple of point i refers to: its own opts_tmp
\* in phase_xiT; in phase_yiT the list is built a second time, with opts.
InputRef(fn, i) == IF fn = "phase_xiT" THEN i ELSE 0

NoSys == [n |-> 0]
SweepInit ==
    /\ wpc = "idle"
    /\ wfn = "none"
    /\ wgiven = NoSys
    /\ wdicts = <<>>
    /\ wpo = [present |-> FALSE, method |-> "unset"]
    /\ wzo = [present |-> FALSE, tol |-> 0]
    /\ winputs = <<>>
    /\ wk = 0
    /\ wseen = <<>>

\* phase_xiT / phase_yiT up to the call of the job.
SweepStart(fn) ==
    /\ wpc = "idle"
    /\ wfn' = fn
    /\ \E sys \in SysDicts :
        /\ wgiven' = sys
        /\ wpo' = sys.pressure_options
        /\ wzo' = sys.zi_opts
        /\ IF OptsRaise(sys) THEN
              /\ wpc' = "raised"
              /\ wdicts' = <<>>
              /\ winputs' = <<>>
           ELSE
              /\ wpc' = "run"
              /\ wdicts' = [i \in 0..sys.n |->
                               IF i = 0 THEN Opts(sys) ELSE OptsTmp(Opts(sys), i)]
              /\ winputs' = [i \in 1..sys.n |-> InputRef(fn, i)]
    /\ wk' = 0
    /\ wseen' = <<>>
    /\ UNCHANGED notSweep

XiTStart == SweepStart("phase_xiT")
YiTStart == SweepStart("phase_yiT")

\* What the final lines of calc_xT_phase / calc_yT_phase leave in zi_opts.
TolAfter(zo) ==
    IF zo.present /\ zo.tol # 0 /\ zo.tol > TolFloor THEN [zo EXCEPT !.tol = TolFloor] ELSE zo

\* The job calls the wrapper on the next point.  A mixture's call of
\* calc_xT_phase (calc_yT_phase) either raises before its last lines or
\* reaches them.
SweepPoint ==
    /\ wpc = "run"
    /\ LET k == wk + 1
           ref == winputs[k]
           opts == wdicts[ref]
           moves == ~wgiven.pure[k] /\ wpo.present /\ wpo.method # "unset"
           method == IF moves THEN wpo.method ELSE opts.method
       IN /\ wdicts' = [wdicts EXCEPT ![ref].method = IF wgiven.pure[k] THEN @ ELSE method]
          /\ wpo' = IF moves THEN [wpo EXCEPT !.method = "unset"] ELSE wpo
          /\ \E reaches \in BOOLEAN :
              /\ wzo' = IF ~wgiven.pure[k] /\ reaches THEN TolAfter(wzo) ELSE wzo
              /\ wseen' = Append(wseen,
                    [opts |-> opts, pressure_options |-> wpo, zi_opts |-> wzo,
                     method |-> IF wgiven.pure[k] THEN "none" ELSE method,
                     reaches |-> ~wgiven.pure[k] /\ reaches])
          /\ wk' = k
          /\ wpc' = IF k = wgiven.n THEN "done" ELSE "run"
    /\ UNCHANGED <<wfn, wgiven, winputs, notSweep>>

\* The caller takes the lists, or the exception.  Its dictionaries are its own
\* and are given anew with the next call.
SweepDone ==
    /\ wpc \in {"done", "raised"}
    /\ wpc' = "idle"
    /\ wfn' = "none"
    /\ wgiven' = NoSys
    /\ wdicts' = <<>>
    /\ wpo' = [present |-> FALSE, method |-> "unset"]
    /\ wzo' = [present |-> FALSE, tol |-> 0]
    /\ winputs' = <<>>
    /\ wk' = 0
    /\ wseen' = <<>>
    /\ UNCHANGED notSweep

SweepNext ==
    \/ XiTStart \/ YiTStart
    \/ SweepPoint
    \/ SweepDone

\* C25: when Pguess, Pmin or Pmax are given with one entry per point, the
\* dictionary in the argument tuple of point i holds the i-th entry of each,
\* a scalar, in phase_xiT and in phase_yiT alike.
C25_PointGetsItsOwnEntry ==
    (wpc \in {"run", "done"}) =>
        \A i \in 1..wgiven.n : \A key \in per_job_var :
            (wgiven[key].kind = "array" /\ Len(wgiven[key].v) = wgiven.n) =>
                wdicts[winputs[i]][key] = ScalarOf(wgiven[key].v[i])

\* C26: when pressure_options holds a 'method', every mixture point of a
\* serial phase_xiT sweep is solved with it, and the worker of each point is
\* given the pressure_options the worker of the first point was given.
C26_EveryPointSameMethod ==
    (wfn = "phase_xiT" /\ wpc \in {"run", "done"}
        /\ wgiven.pressure_options.method # "unset") =>
        \A k \in 1..Len(wseen) :
            /\ wseen[k].pressure_options = wseen[1].pressure_options
            /\ ~wgiven.pure[k] => wseen[k].method = wgiven.pressure_options.method

\* C27: calc_xT_phase and calc_yT_phase leave the caller's zi_opts as it was
\* given, so every point of a sweep is solved with the caller's 'tol'.
C27_ZiOptsUnchanged ==
    (wpc \in {"run", "done"}) =>
        /\ wzo = wgiven.zi_opts
        /\ \A k \in 1..Len(wseen) : wseen[k].zi_opts = wgiven.zi_opts

(***************************************************************************)
(* Specifications.                                                         *)
(***************************************************************************)
Init ==
    /\ DensityInit /\ PrangeInit /\ InnerInit /\ GlobalInit /\ BatchInit
    /\ CurveInit /\ OuterInit /\ FitInit /\ SweepInit

SpecDensity == Init /\ [][DensityNext]_vars

SpecPrange == Init /\ [][PrangeNext]_vars

\* The interpreter runs the next statement of a call in progress.
SpecPrangeLive == Init /\ [][PrangeNext]_vars /\ WF_vars(PrangeNext)

SpecInner == Init /\ [][InnerNext]_vars

SpecBatch == Init /\ [][BatchNext]_vars

SpecCurve == Init /\ [][CurveNext]_vars

SpecOuter == Init /\ [][OuterNext]_vars

SpecFit == Init /\ [][FitNext]_vars

SpecSweep == Init /\ [][SweepNext]_vars

====
